---- MODULE Spec2Model ----
(***************************************************************************)
(* TDF font bundle: the packer (src/tdfPacker.js) that turns TheDraw font  *)
(* containers into one binary bundle, and the bundle renderer (the v4.0    *)
(* renderer, src/unnamed/part_001) that loads the bundle, looks glyphs up  *)
(* and decodes them.                                                       *)
(*                                                                         *)
(* Conventions.  A byte buffer is a sequence of numbers 0..255; JavaScript *)
(* offsets are 0-based, so byte `off` of buffer b is b[off + 1] (At).      *)
(* A JavaScript value that may be null/undefined is an option: <<>> is     *)
(* null, <<v>> is the value v.  Strings are sequences of character codes.  *)
(***************************************************************************)
EXTENDS Integers, Sequences, FiniteSets, TLC

VARIABLES
    filesInDir,   \* packer input: the directory listing, in enumeration order
    pack,         \* outcome of one run of the packer's main()
    rdr,          \* the renderer's module state (part_001 lines 66-77)
    initPc,       \* number of init() calls of the renderer that wait for their fetch
    lastOp,       \* the last renderer operation and what it returned
    codec         \* input and output of the RLE codec, for the codec specification

vars == <<filesInDir, pack, rdr, initPc, lastOp, codec>>

----------------------------------------------------------------------------
(* Program constants *)

TDF_COLOR_FONT_TYPE == 2
TDF_FONT_METADATA_BLOCK_SIZE == 213
BIN_BUNDLE_VERSION == 4
RLE_ESCAPE_BYTE == 255
RLE_MIN_RUN_LENGTH == 3
RLE_MAX_RUN_BYTE_VALUE == 255
RLE_MAX_ACTUAL_RUN == RLE_MAX_RUN_BYTE_VALUE + RLE_MIN_RUN_LENGTH
PADDING_CHAR == 32
PADDING_ATTR == 0
MaxPalettePairs == 254
TdfRowSeparator == 13
TdfGlyphTerminator == 0
TdfOffsetUndefined == 65535
BIN_MAGIC_STRING == <<84, 68, 70, 66>>   \* "TDFB"
SUPPORTED_CHAR_LIST == 33..126

----------------------------------------------------------------------------
(* Options and byte helpers *)

Null == <<>>
Some(v) == <<v>>
IsNull(o) == o = <<>>
Val(o) == o[1]

At(buf, off) == buf[off + 1]

\* Buffer.from(array): every element is stored modulo 256.
ToByte(n) == n % 256

Max(a, b) == IF a >= b THEN a ELSE b
Min(a, b) == IF a <= b THEN a ELSE b

RECURSIVE Concat(_)
Concat(ss) ==
    IF Len(ss) = 0 THEN <<>>
    ELSE IF Len(ss) = 1 THEN ss[1]
    ELSE Concat(SubSeq(ss, 1, Len(ss) \div 2)) \o Concat(SubSeq(ss, Len(ss) \div 2 + 1, Len(ss)))

Repeat(v, n) == [i \in 1..n |-> v]

\* A sequence given as a function, as a tuple of its values.
TupleOf(f) == f \o <<>>

SetMax(S) == CHOOSE x \in S : \A y \in S : y <= x

----------------------------------------------------------------------------
(* TdfParser.extractRawGlyphCellsAndDimensions: src/tdfPacker.js 182-239 *)

\* An ending that keeps the current line whatever it holds.
AppendCurrentLine(lines, currentLine) == Append(lines, currentLine)

\* Lines 213-215 and 229: the current line is kept when it holds a cell or
\* when no line exists yet.
FinalizeLines(lines, currentLine) ==
    IF Len(currentLine) > 0 \/ Len(lines) = 0 THEN Append(lines, currentLine) ELSE lines

\* One pass through the while loop of lines 199-235.  r holds the read offset,
\* the lines finished so far, the line being read and whether the loop has ended.
ReadStep(buffer, r) ==
    IF r.done THEN r
    ELSE IF r.off >= Len(buffer)
    THEN [r EXCEPT !.lines = FinalizeLines(r.lines, r.currentLine), !.done = TRUE]   \* forced EOF: simulated 0x00
    ELSE LET byte == At(buffer, r.off) IN
         IF byte = TdfGlyphTerminator
         THEN [r EXCEPT !.lines = FinalizeLines(r.lines, r.currentLine), !.done = TRUE]
         ELSE IF byte = TdfRowSeparator
         THEN [r EXCEPT !.off = r.off + 1, !.lines = Append(r.lines, r.currentLine),
                        !.currentLine = <<>>]
         ELSE IF r.off + 1 >= Len(buffer)
         THEN [r EXCEPT !.lines = FinalizeLines(r.lines, r.currentLine), !.done = TRUE]  \* missing attribute byte
         ELSE [r EXCEPT !.off = r.off + 2,
                        !.currentLine = Append(r.currentLine,
                            [charByte |-> byte, attrByte |-> At(buffer, r.off + 1)])]

\* At most n passes of the loop, stopping when it has ended; the passes are
\* split in two halves so that the evaluation nests only log(n) deep.
RECURSIVE ReadLoop(_, _, _)
ReadLoop(buffer, r, n) ==
    IF r.done \/ n = 0 THEN r
    ELSE IF n = 1 THEN ReadStep(buffer, r)
    ELSE ReadLoop(buffer, ReadLoop(buffer, r, n \div 2), n - n \div 2)

\* The loop run to its end from read offset `off`: every pass but the last
\* moves the offset forward, so Len(buffer) + 1 passes end it.
ReadGlyphLines(buffer, off, lines, currentLine) ==
    ReadLoop(buffer, [off |-> off, lines |-> lines, currentLine |-> currentLine,
                      done |-> FALSE], Len(buffer) + 1).lines

\* fontMeta.offsets holds the characters whose table entry is not 0xFFFF.
\* Lines 237-238: the object returned for the lines read.
RawGlyph(declaredWidth, lines) ==
    [declaredWidth |-> declaredWidth,
     actualHeight  |-> IF Len(lines) > 0 THEN Len(lines) ELSE 1,
     lines         |-> lines]

extractRawGlyphCellsAndDimensions(buffer, fontMeta, charKey) ==
    IF charKey \notin DOMAIN fontMeta.offsets THEN Null
    ELSE LET absoluteOffset == fontMeta.dataBlockStartOffset + fontMeta.offsets[charKey] IN
         IF absoluteOffset + 2 > Len(buffer) THEN Null
         ELSE Some(RawGlyph(At(buffer, absoluteOffset),
                            ReadGlyphLines(buffer, absoluteOffset + 2, <<>>, <<>>)))

----------------------------------------------------------------------------
(* buildLocalPairPalette: src/tdfPacker.js 255-295 *)

PaddingPair == [char |-> PADDING_CHAR, attr |-> PADDING_ATTR]

InSeq(s, v) == \E i \in 1..Len(s) : s[i] = v

\* Lines 258-270: the Map of unique pairs, in insertion order.  One pass of the
\* loop over the cells: r holds the next cell and the pairs found so far.
CollectStep(cells, r) ==
    IF r.i > Len(cells) THEN r
    ELSE LET p == [char |-> cells[r.i].charByte, attr |-> cells[r.i].attrByte] IN
         [i |-> r.i + 1, acc |-> IF InSeq(r.acc, p) THEN r.acc ELSE Append(r.acc, p)]

RECURSIVE CollectLoop(_, _, _)
CollectLoop(cells, r, n) ==
    IF r.i > Len(cells) \/ n = 0 THEN r
    ELSE IF n = 1 THEN CollectStep(cells, r)
    ELSE CollectLoop(cells, CollectLoop(cells, r, n \div 2), n - n \div 2)

\* One pass per cell.
CollectUniquePairs(cells, i, acc) == CollectLoop(cells, [i |-> i, acc |-> acc], Len(cells)).acc

\* Lines 281-284: the sort comparator, as "a is placed before b".
PairBefore(a, b) ==
    IF a.char # b.char THEN a.char < b.char ELSE a.attr < b.attr

\* Lines 272-276: the padding pair is added when the font requires padding.
WithoutPaddingPair(pairs, fontRequiresPadding) == pairs

WithPaddingPair(pairs, fontRequiresPadding) ==
    IF fontRequiresPadding /\ ~InSeq(pairs, PaddingPair) THEN Append(pairs, PaddingPair) ELSE pairs

\* Line 288: the palette is refused above 254 pairs.
NoPaletteLimit(nPairs) == FALSE

PaletteOverflows(nPairs) == nPairs > MaxPalettePairs

\* Lines 286-294: the result for the sorted palette, null when it is refused.
PaletteResult(pairPalette) ==
    IF PaletteOverflows(Len(pairPalette)) THEN Null
    ELSE Some([pairPalette |-> pairPalette, nPairs |-> Len(pairPalette)])

buildLocalPairPalette(allGlyphLinesData, fontRequiresPadding) ==
    PaletteResult(SortSeq(WithPaddingPair(
                              CollectUniquePairs(Concat(Concat(allGlyphLinesData)), 1, <<>>),
                              fontRequiresPadding),
                          PairBefore))

\* pairToIndexMap.get (lines 601-604): the 0-based palette position, or undefined.
PairToIndex(pairPalette, char, attr) ==
    LET p == [char |-> char, attr |-> attr] IN
    IF InSeq(pairPalette, p)
    THEN Some((CHOOSE i \in 1..Len(pairPalette) : pairPalette[i] = p) - 1)
    ELSE Null

----------------------------------------------------------------------------
(* encodeGlyphToRLEStream: src/tdfPacker.js 307-379 *)

\* Lines 321-345: the dense declaredWidth x actualHeight grid of palette indices.
FlatIndexStream(rawGlyph, pairPalette) ==
    LET paddingPairIndex == PairToIndex(pairPalette, PADDING_CHAR, PADDING_ATTR)
        w == rawGlyph.declaredWidth
        IndexAt(y, x) ==
            LET line == IF y + 1 <= Len(rawGlyph.lines) THEN rawGlyph.lines[y + 1] ELSE <<>>
                pairIndex == IF x < Len(line)
                             THEN PairToIndex(pairPalette, line[x + 1].charByte, line[x + 1].attrByte)
                             ELSE paddingPairIndex
            IN  IF IsNull(pairIndex) THEN 0 ELSE Val(pairIndex)
    IN  [k \in 1..(w * rawGlyph.actualHeight) |-> IndexAt((k - 1) \div w, (k - 1) % w)]

\* Lines 352-360: the inner while loop that extends the run starting at 0-based
\* position i; one pass adds a cell to the run while its condition holds.
RunGoesOn(flat, i, runLength) ==
    /\ runLength < RLE_MAX_ACTUAL_RUN
    /\ i + runLength < Len(flat)
    /\ At(flat, i + runLength) = At(flat, i)

CountStep(flat, i, runLength) == IF RunGoesOn(flat, i, runLength) THEN runLength + 1 ELSE runLength

\* At most n passes, stopping when the loop condition fails.
RECURSIVE CountLoop(_, _, _, _)
CountLoop(flat, i, runLength, n) ==
    IF ~RunGoesOn(flat, i, runLength) \/ n = 0 THEN runLength
    ELSE IF n = 1 THEN CountStep(flat, i, runLength)
    ELSE CountLoop(flat, i, CountLoop(flat, i, runLength, n \div 2), n - n \div 2)

\* The loop run to its end: a run has at most Len(flat) cells.
CountRun(flat, i, runLength) == CountLoop(flat, i, runLength, Len(flat))

\* Line 365: whether a run is written as an escape triple.
NoEscapeRuleForEscapeIndex(currentIndex, runLength) == runLength >= RLE_MIN_RUN_LENGTH

RunIsEscaped(currentIndex, runLength) ==
    currentIndex = RLE_ESCAPE_BYTE \/ runLength >= RLE_MIN_RUN_LENGTH

\* Lines 349-377: one pass of the while loop.  r holds the position i and the
\* runs found so far, each with the way it is written.
EncodeStep(flat, r) ==
    IF r.i >= Len(flat) THEN r
    ELSE LET currentIndex == At(flat, r.i)
             runLength    == CountRun(flat, r.i, 1)
         IN  [i    |-> r.i + runLength,
              runs |-> Append(r.runs, [index |-> currentIndex, runLength |-> runLength,
                                       escaped |-> RunIsEscaped(currentIndex, runLength)])]

RECURSIVE EncodeLoop(_, _, _)
EncodeLoop(flat, r, n) ==
    IF r.i >= Len(flat) \/ n = 0 THEN r
    ELSE IF n = 1 THEN EncodeStep(flat, r)
    ELSE EncodeLoop(flat, EncodeLoop(flat, r, n \div 2), n - n \div 2)

\* The runs the encoder finds from position i on, in order: every pass takes
\* at least one cell, so Len(flat) passes end the loop.
EncodeRuns(flat, i) == EncodeLoop(flat, [i |-> i, runs |-> <<>>], Len(flat)).runs

\* Lines 366-368 and 372-374: what one run pushes onto rleEncodedStream.
RunPushes(run) ==
    IF run.escaped
    THEN <<RLE_ESCAPE_BYTE, run.runLength - RLE_MIN_RUN_LENGTH, run.index>>
    ELSE Repeat(run.index, run.runLength)

\* Line 378: Buffer.from(rleEncodedStream).
RleEncode(flat) ==
    LET runs   == EncodeRuns(flat, 0)
        pushed == Concat([r \in 1..Len(runs) |-> RunPushes(runs[r])])
    IN  [k \in 1..Len(pushed) |-> ToByte(pushed[k])]

encodeGlyphToRLEStream(rawGlyph, pairPalette) ==
    RleEncode(FlatIndexStream(rawGlyph, pairPalette))

----------------------------------------------------------------------------
(* Little-endian reads and writes (DataView.getUint16/32, Buffer.writeUInt16/32LE) *)

U16LE(n) == <<n % 256, (n \div 256) % 256>>
U32LE(n) == <<n % 256, (n \div 256) % 256, (n \div 65536) % 256, (n \div 16777216) % 256>>
GetUint16LE(view, off) == At(view, off) + 256 * At(view, off + 1)
GetUint32LE(view, off) ==
    At(view, off) + 256 * At(view, off + 1) + 65536 * At(view, off + 2) + 16777216 * At(view, off + 3)

----------------------------------------------------------------------------
(* _decodeRLEStreamToPairIndices: src/unnamed/part_001 311-365 *)

\* Line 316: the loop goes on while cells are missing.
DecodeOneTokenTooMany(cellsDecoded, expectedNumCells) == cellsDecoded <= expectedNumCells

DecodeContinues(cellsDecoded, expectedNumCells) == cellsDecoded < expectedNumCells

\* Lines 334-343: how many copies of a run are pushed (k with cellsDecoded + k < expected).
RunCellsPushed(actualRunLength, cellsDecoded, expectedNumCells) ==
    Max(0, Min(actualRunLength, expectedNumCells - cellsDecoded))

\* Lines 316-350, one pass of the while loop.  r holds currentOffset,
\* cellsDecoded, decodedIndices, whether the loop has ended and whether it was
\* left by one of the two breaks (premature).
DecodeStep(view, expectedNumCells, r) ==
    IF r.done THEN r
    ELSE IF ~DecodeContinues(r.cellsDecoded, expectedNumCells)
    THEN [r EXCEPT !.done = TRUE]
    ELSE IF r.offset >= Len(view)
    THEN [r EXCEPT !.done = TRUE, !.premature = TRUE]
    ELSE LET byteValue == At(view, r.offset) IN
         IF byteValue = RLE_ESCAPE_BYTE
         THEN IF (r.offset + 1) + 2 > Len(view)
              THEN [r EXCEPT !.offset = r.offset + 1, !.done = TRUE, !.premature = TRUE]
              ELSE LET runLengthByte   == At(view, r.offset + 1)
                       indexToRepeat   == At(view, r.offset + 2)
                       actualRunLength == runLengthByte + RLE_MIN_RUN_LENGTH
                   IN  [r EXCEPT !.offset = r.offset + 3,
                                 !.cellsDecoded = r.cellsDecoded + actualRunLength,
                                 !.indices = r.indices \o Repeat(indexToRepeat,
                                     RunCellsPushed(actualRunLength, r.cellsDecoded, expectedNumCells))]
         ELSE [r EXCEPT !.offset = r.offset + 1,
                        !.cellsDecoded = r.cellsDecoded + 1,
                        !.indices = Append(r.indices, byteValue)]

RECURSIVE DecodeRun(_, _, _, _)
DecodeRun(view, expectedNumCells, r, n) ==
    IF r.done \/ n = 0 THEN r
    ELSE IF n = 1 THEN DecodeStep(view, expectedNumCells, r)
    ELSE DecodeRun(view, expectedNumCells,
                   DecodeRun(view, expectedNumCells, r, n \div 2), n - n \div 2)

\* The loop run to its end: every pass but the last counts at least one cell
\* or reads at least one byte, so expectedNumCells + Len(view) + 2 passes end it.
DecodeLoop(view, currentOffset, cellsDecoded, decodedIndices, expectedNumCells) ==
    DecodeRun(view, expectedNumCells,
              [offset |-> currentOffset, cellsDecoded |-> cellsDecoded,
               indices |-> decodedIndices, done |-> FALSE, premature |-> FALSE],
              expectedNumCells + Len(view) + 2)

\* Lines 353-364: the result is brought to the expected length, padded with index 0.
AdjustToExpectedLength(decodedIndices, expectedNumCells) ==
    IF Len(decodedIndices) # expectedNumCells
    THEN [i \in 1..expectedNumCells |-> IF i <= Len(decodedIndices) THEN decodedIndices[i] ELSE 0]
    ELSE decodedIndices

_decodeRLEStreamToPairIndices(view, rleStreamAbsOffset, expectedNumCells) ==
    Some(AdjustToExpectedLength(
             DecodeLoop(view, rleStreamAbsOffset, 0, <<>>, expectedNumCells).indices,
             expectedNumCells))

\* The byte offset at which the decoder stops reading (currentOffset when the loop ends).
DecodeEndOffset(view, rleStreamAbsOffset, expectedNumCells) ==
    DecodeLoop(view, rleStreamAbsOffset, 0, <<>>, expectedNumCells).offset

\* The other copy of the v4.0 renderer, src/unnamed/part_002 295-349: the two
\* premature-end branches return null (lines 303 and 312) instead of breaking.
_decodeRLEStreamToPairIndices_part002(view, rleStreamAbsOffset, expectedNumCells) ==
    LET r == DecodeLoop(view, rleStreamAbsOffset, 0, <<>>, expectedNumCells) IN
    IF r.premature THEN Null
    ELSE Some(AdjustToExpectedLength(r.indices, expectedNumCells))

----------------------------------------------------------------------------
(* Font keys: TdfParser._extractFontMetadataFromHeader, src/tdfPacker.js 92-150 *)

\* The character class [a-zA-Z0-9_.-] of lines 134-135.
IsKeyChar(c) == c \in 97..122 \/ c \in 65..90 \/ c \in 48..57 \/ c \in {95, 46, 45}

\* String.replace(/[^a-zA-Z0-9_.-]/g, "_").
Sanitize(str) == [i \in 1..Len(str) |-> IF IsKeyChar(str[i]) THEN str[i] ELSE 95]

WhiteSpaceCodes == {9, 10, 11, 12, 13, 32, 160}

RECURSIVE TrimStart(_)
TrimStart(str) ==
    IF str # <<>> /\ Head(str) \in WhiteSpaceCodes THEN TrimStart(Tail(str)) ELSE str

RECURSIVE TrimEnd(_)
TrimEnd(str) ==
    IF str # <<>> /\ str[Len(str)] \in WhiteSpaceCodes
    THEN TrimEnd(SubSeq(str, 1, Len(str) - 1)) ELSE str

\* String.prototype.trim (line 111).
Trim(str) == TrimEnd(TrimStart(str))

\* Lines 104-110: at most 12 name bytes, up to the first zero byte.
RECURSIVE ReadFontName(_, _, _)
ReadFontName(nameBytes, i, fontNameLength) ==
    IF i > fontNameLength \/ i > Len(nameBytes) \/ nameBytes[i] = 0 THEN <<>>
    ELSE <<nameBytes[i]>> \o ReadFontName(nameBytes, i + 1, fontNameLength)

TdfSuffix == <<46, 116, 100, 102>>       \* ".tdf"
UnnamedFont == <<85, 110, 110, 97, 109, 101, 100, 70, 111, 110, 116>>   \* "UnnamedFont"

ToLowerCase(str) == [i \in 1..Len(str) |-> IF str[i] \in 65..90 THEN str[i] + 32 ELSE str[i]]

\* path.extname: from the last dot on, when that dot is not the first character.
ExtName(name) ==
    LET dots == {i \in 1..Len(name) : name[i] = 46} IN
    IF dots = {} \/ SetMax(dots) = 1 THEN <<>>
    ELSE SubSeq(name, SetMax(dots), Len(name))

\* path.basename(name, ".tdf"): the suffix is cut off when the name ends with it.
BaseName(name, suffix) ==
    IF Len(name) > Len(suffix)
       /\ SubSeq(name, Len(name) - Len(suffix) + 1, Len(name)) = suffix
    THEN SubSeq(name, 1, Len(name) - Len(suffix))
    ELSE name

\* Lines 133-136.
UniqueKey(fileName, fontName) ==
    LET sanitizedBase == Sanitize(BaseName(fileName, TdfSuffix))
        sanitizedName == Sanitize(fontName)
    IN  sanitizedBase \o <<95>> \o (IF sanitizedName # <<>> THEN sanitizedName ELSE UnnamedFont)

\* A header block found by parseFontHeaders (lines 156-171) is a record of the
\* fields _extractFontMetadataFromHeader reads; null unless the font is a color font.
_extractFontMetadataFromHeader(fileName, header) ==
    IF header.fontType # TDF_COLOR_FONT_TYPE THEN Null
    ELSE LET fontName == Trim(ReadFontName(header.nameBytes, 1, Min(header.nameLength, 12))) IN
         Some([uniqueKey    |-> UniqueKey(fileName, fontName),
               internalName |-> fontName,
               spacing      |-> IF header.letterSpacingRaw > 0 THEN header.letterSpacingRaw - 1 ELSE 0,
               offsets      |-> [c \in {d \in DOMAIN header.charTable :
                                          header.charTable[d] # TdfOffsetUndefined}
                                   |-> header.charTable[c]],
               dataBlockStartOffset |-> header.dataBlockStartOffset])

----------------------------------------------------------------------------
(* String.prototype.localeCompare on font keys (src/tdfPacker.js 646).  Keys *)
(* hold only [a-zA-Z0-9_.-]; in the root collation "_" < "-" < "." < digits  *)
(* < letters, letters compare without case first and lower case wins ties.   *)

PrimaryWeight(c) ==
    IF c = 95 THEN 1
    ELSE IF c = 45 THEN 2
    ELSE IF c = 46 THEN 3
    ELSE IF c \in 48..57 THEN 10 + (c - 48)
    ELSE IF c \in 97..122 THEN 100 + (c - 97)
    ELSE IF c \in 65..90 THEN 100 + (c - 65)
    ELSE 200 + c

CaseWeight(c) == IF c \in 65..90 THEN 1 ELSE 0

RECURSIVE LexCompare(_, _, _)
LexCompare(a, b, i) ==
    IF i > Len(a) /\ i > Len(b) THEN 0
    ELSE IF i > Len(a) THEN -1
    ELSE IF i > Len(b) THEN 1
    ELSE IF a[i] < b[i] THEN -1
    ELSE IF a[i] > b[i] THEN 1
    ELSE LexCompare(a, b, i + 1)

LocaleCompare(a, b) ==
    LET primary == LexCompare([i \in 1..Len(a) |-> PrimaryWeight(a[i])],
                              [i \in 1..Len(b) |-> PrimaryWeight(b[i])], 1)
    IN  IF primary # 0 THEN primary
        ELSE LexCompare([i \in 1..Len(a) |-> CaseWeight(a[i])],
                        [i \in 1..Len(b) |-> CaseWeight(b[i])], 1)

\* Array.prototype.sort is stable: an element goes behind every element that
\* does not compare greater than it.
RECURSIVE InsertByKey(_, _)
InsertByKey(sorted, font) ==
    IF sorted = <<>> THEN <<font>>
    ELSE IF LocaleCompare(sorted[Len(sorted)].uniqueKey, font.uniqueKey) <= 0
    THEN Append(sorted, font)
    ELSE Append(InsertByKey(SubSeq(sorted, 1, Len(sorted) - 1), font), sorted[Len(sorted)])

RECURSIVE SortFontsByKey(_, _)
SortFontsByKey(fonts, n) ==
    IF n = 0 THEN <<>> ELSE InsertByKey(SortFontsByKey(fonts, n - 1), fonts[n])

----------------------------------------------------------------------------
(* main(), per font: src/tdfPacker.js 553-626 *)

\* Lines 559-579: the glyphs of the font that the parser returns, by character.
GlyphsReturned(parsed) ==
    [c \in {d \in DOMAIN parsed : ~IsNull(parsed[d])} |-> Val(parsed[c])]

AllGlyphRawData(buffer, fontMeta) ==
    GlyphsReturned([c \in SUPPORTED_CHAR_LIST |->
                       extractRawGlyphCellsAndDimensions(buffer, fontMeta, c)])

\* Lines 564-577: a line shorter than the declared width, or a glyph without cells.
GlyphRequiresPadding(rawGlyph) ==
    \/ \E y \in 1..Len(rawGlyph.lines) : Len(rawGlyph.lines[y]) < rawGlyph.declaredWidth
    \/ /\ \A y \in 1..Len(rawGlyph.lines) : Len(rawGlyph.lines[y]) = 0
       /\ rawGlyph.declaredWidth > 0
       /\ rawGlyph.actualHeight > 0

FontRequiresPadding(allGlyphRawData) ==
    \E c \in DOMAIN allGlyphRawData : GlyphRequiresPadding(allGlyphRawData[c])

\* The characters of a set in ascending code order.
RECURSIVE AscendingChars(_)
AscendingChars(S) ==
    IF S = {} THEN <<>>
    ELSE LET m == CHOOSE x \in S : \A y \in S : x <= y IN <<m>> \o AscendingChars(S \ {m})

\* Object.values(allGlyphRawData).map(g => g.lines), line 588.  (The glyphs are
\* taken in ascending character order; the palette is sorted afterwards.)
AllGlyphLinesData(allGlyphRawData) ==
    LET chars == AscendingChars(DOMAIN allGlyphRawData) IN
    [k \in 1..Len(chars) |-> allGlyphRawData[chars[k]].lines]

\* The body of the loop over parsedFontHeaders: null when the font is skipped
\* (no glyph, line 581; palette overflow, line 592).  `source` and
\* `allGlyphRawData` record where the font came from; main() does not keep them.
\* Lines 592-623, for the glyphs and the palette result of the font.
EncodeFont(fontMeta, source, allGlyphRawData, paletteResult) ==
    IF IsNull(paletteResult) THEN Null
    ELSE Some([uniqueKey     |-> fontMeta.uniqueKey,
               spacing       |-> fontMeta.spacing,
               nPairs        |-> Val(paletteResult).nPairs,
               pairPalette   |-> Val(paletteResult).pairPalette,
               encodedGlyphs |->
                   [c \in DOMAIN allGlyphRawData |->
                       [width     |-> allGlyphRawData[c].declaredWidth,
                        height    |-> allGlyphRawData[c].actualHeight,
                        rleStream |-> encodeGlyphToRLEStream(allGlyphRawData[c],
                                                             Val(paletteResult).pairPalette)]],
               source          |-> source,
               allGlyphRawData |-> allGlyphRawData])

\* Lines 581-623, for the glyphs the parser returned.
ProcessGlyphs(fontMeta, source, allGlyphRawData) ==
    IF DOMAIN allGlyphRawData = {} THEN Null
    ELSE EncodeFont(fontMeta, source, allGlyphRawData,
                    buildLocalPairPalette(AllGlyphLinesData(allGlyphRawData),
                                          FontRequiresPadding(allGlyphRawData)))

ProcessFont(buffer, fontMeta, source) ==
    ProcessGlyphs(fontMeta, source, AllGlyphRawData(buffer, fontMeta))

\* Lines 544-630, one file of the directory: the fonts it adds to processedFontsData.
\* A file without the .tdf extension is passed over; a buffer shorter than the
\* metadata block makes the TdfParser constructor throw (line 54), which the
\* per-file catch swallows.
ProcessFile(file, fileIndex) ==
    IF ToLowerCase(ExtName(file.name)) # TdfSuffix THEN <<>>
    ELSE IF file.byteLength < TDF_FONT_METADATA_BLOCK_SIZE THEN <<>>
    ELSE LET metas == [h \in 1..Len(file.headers) |->
                          _extractFontMetadataFromHeader(file.name, file.headers[h])]
             fonts == [h \in 1..Len(file.headers) |->
                          IF IsNull(metas[h]) THEN Null
                          ELSE ProcessFont(file.buffer, Val(metas[h]),
                                           [file |-> fileIndex, header |-> h])]
         IN  Concat(fonts)

----------------------------------------------------------------------------
(* Bundle assembly: src/tdfPacker.js 389-516 *)

\* _buildStringPoolAndIndexPlaceholders (389-401): key bytes, NUL-terminated.
KeyBufferUnterminated(font) == font.uniqueKey

KeyBuffer(font) == font.uniqueKey \o <<0>>

StringPoolBuffer(processedFonts) ==
    Concat([i \in 1..Len(processedFonts) |-> KeyBuffer(processedFonts[i])])

RECURSIVE SumLen(_, _)
SumLen(buffers, n) == IF n = 0 THEN 0 ELSE SumLen(buffers, n - 1) + Len(buffers[n])

\* The glyph entries of a font sorted by character code (line 446).
GlyphEntries(fontInfo) == AscendingChars(DOMAIN fontInfo.encodedGlyphs)

\* One glyph's part of the glyph data table (lines 457-461).
GdtPart(glyphData) == <<glyphData.width, glyphData.height>> \o glyphData.rleStream

\* currentGdtRelativeOffset before entry entryIndex (1-based) is written (line 463).
GdtOffsetBehindEntry(fontInfo, entryIndex) ==
    LET chars == GlyphEntries(fontInfo) IN
    SumLen([k \in 1..Len(chars) |-> GdtPart(fontInfo.encodedGlyphs[chars[k]])], entryIndex)

GdtRelativeOffset(fontInfo, entryIndex) ==
    LET chars == GlyphEntries(fontInfo) IN
    SumLen([k \in 1..Len(chars) |-> GdtPart(fontInfo.encodedGlyphs[chars[k]])], entryIndex - 1)

\* Buffer.writeUInt8 / writeUInt16LE throw a RangeError for a value outside the
\* field; nothing in _buildFontDataPool or main() catches it.
FontBlockWritable(fontInfo) ==
    LET chars == GlyphEntries(fontInfo) IN
    /\ fontInfo.spacing \in 0..255
    /\ fontInfo.nPairs \in 0..255
    /\ Len(chars) \in 0..255
    /\ \A k \in 1..Len(chars) :
          /\ fontInfo.encodedGlyphs[chars[k]].width \in 0..255
          /\ fontInfo.encodedGlyphs[chars[k]].height \in 0..255
          /\ GdtRelativeOffset(fontInfo, k) \in 0..65535

\* Lines 416-468: the complete data block of one font.
FontDataBlock(fontInfo) ==
    LET chars == GlyphEntries(fontInfo) IN
    <<fontInfo.spacing, fontInfo.nPairs>>
    \o Concat([i \in 1..Len(fontInfo.pairPalette) |->
                 <<fontInfo.pairPalette[i].char, fontInfo.pairPalette[i].attr>>])
    \o <<Len(chars)>>
    \o Concat([k \in 1..Len(chars) |-> <<chars[k]>> \o U16LE(GdtRelativeOffset(fontInfo, k))])
    \o Concat([k \in 1..Len(chars) |-> GdtPart(fontInfo.encodedGlyphs[chars[k]])])

\* fontIndexTableData after _buildFontDataPool has filled in the data offsets.
FontIndexTableData(processedFonts) ==
    [i \in 1..Len(processedFonts) |->
        [keyOffsetInPool  |-> SumLen([k \in 1..Len(processedFonts) |-> KeyBuffer(processedFonts[k])], i - 1),
         dataOffsetInPool |-> SumLen([k \in 1..Len(processedFonts) |-> FontDataBlock(processedFonts[k])], i - 1)]]

_buildFontDataPool(processedFonts) ==
    Concat([i \in 1..Len(processedFonts) |-> FontDataBlock(processedFonts[i])])

\* _finalizeFontIndexTable (480-488).
_finalizeFontIndexTable(fontIndexTableData) ==
    Concat([i \in 1..Len(fontIndexTableData) |->
              U32LE(fontIndexTableData[i].keyOffsetInPool)
              \o U32LE(fontIndexTableData[i].dataOffsetInPool)])

BundleHeaderSize == 21
FontIndexEntrySize == 8

\* _buildBundleHeader (497-516).
_buildBundleHeader(numFonts, indexTableLength, stringPoolLength) ==
    BIN_MAGIC_STRING \o <<BIN_BUNDLE_VERSION>> \o U32LE(numFonts)
    \o U32LE(BundleHeaderSize)
    \o U32LE(BundleHeaderSize + indexTableLength)
    \o U32LE(BundleHeaderSize + indexTableLength + stringPoolLength)

\* main(), src/tdfPacker.js 524-680, on a readable directory.
\* Lines 654-661: the header, and the four buffers joined into the file.
FinalBundle(processedFontsData, fontIndexTableData, finalFontIndexTableBuffer, stringPoolBuffer, fontDataPoolBuffer) ==
    [status |-> "written", exitCode |-> 0, processedFontsData |-> processedFontsData,
     fontIndexTableData |-> fontIndexTableData,
     bundle |-> _buildBundleHeader(Len(processedFontsData),
                                   Len(finalFontIndexTableBuffer), Len(stringPoolBuffer))
                \o finalFontIndexTableBuffer \o stringPoolBuffer \o fontDataPoolBuffer]

\* Lines 650-653, once the data offsets of the index table are known.
AssembleBundle(processedFontsData, fontIndexTableData) ==
    FinalBundle(processedFontsData, fontIndexTableData,
                _finalizeFontIndexTable(fontIndexTableData),
                StringPoolBuffer(processedFontsData),
                _buildFontDataPool(processedFontsData))

\* Lines 648-679 for the sorted fonts; a value that does not fit its field
\* ends the run with an uncaught RangeError: node prints it and exits with 1.
WriteBundle(processedFontsData) ==
    IF \E i \in 1..Len(processedFontsData) : ~FontBlockWritable(processedFontsData[i])
    THEN [status |-> "crashed", exitCode |-> 1, processedFontsData |-> processedFontsData,
          fontIndexTableData |-> <<>>, bundle |-> <<>>]
    ELSE AssembleBundle(processedFontsData, FontIndexTableData(processedFontsData))

\* Lines 639-679 for the fonts collected from all files; without a font main()
\* returns (line 642) and the process ends with exit code 0.
PackCollected(collected) ==
    IF Len(collected) = 0
    THEN [status |-> "nofonts", exitCode |-> 0, processedFontsData |-> <<>>,
          fontIndexTableData |-> <<>>, bundle |-> <<>>]
    ELSE WriteBundle(SortFontsByKey(collected, Len(collected)))

\* main(), src/tdfPacker.js 524-680, on a readable directory.
main(dir) == PackCollected(Concat([f \in 1..Len(dir) |-> ProcessFile(dir[f], f)]))

\* main() when fs.readdirSync throws: the outer catch calls process.exit(1)
\* (lines 632-635).
mainOnUnreadableDirectory ==
    [status |-> "unreadable", exitCode |-> 1, processedFontsData |-> <<>>,
     fontIndexTableData |-> <<>>, bundle |-> <<>>]

----------------------------------------------------------------------------
(* The v4.0 renderer, src/unnamed/part_001.  Its module state is the record   *)
(* rdr; _bundleView is the byte sequence rdr._bundleBuffer holds.             *)

EXPECTED_BUNDLE_FORMAT_VERSION == 4

\* TextDecoder.decode on key bytes: an ASCII byte is its own character; a byte
\* that is not ASCII never decodes to itself (U+FFFD stands for the result).
DecodeUtf8(bytes) == [i \in 1..Len(bytes) |-> IF bytes[i] < 128 THEN bytes[i] ELSE 65533]

\* readNullTerminatedString (106-130).
RECURSIVE StringEnd(_, _)
StringEnd(view, endOffset) ==
    IF endOffset < Len(view) /\ At(view, endOffset) # 0 THEN StringEnd(view, endOffset + 1)
    ELSE endOffset

readNullTerminatedString(view, startOffset) ==
    LET endOffset == StringEnd(view, startOffset) IN
    IF endOffset = startOffset THEN <<>>
    ELSE DecodeUtf8(SubSeq(view, startOffset + 1, endOffset))

\* The version check of line 738.
AnyVersionAccepted(version) == FALSE

VersionUnsupported(version) == version # EXPECTED_BUNDLE_FORMAT_VERSION

\* _parseBundleHeader (724-762): null stands for the thrown Error.
_parseBundleHeader(view) ==
    IF Len(view) < BundleHeaderSize THEN Null
    ELSE IF DecodeUtf8(SubSeq(view, 1, 4)) # BIN_MAGIC_STRING THEN Null
    ELSE IF VersionUnsupported(At(view, 4)) THEN Null
    ELSE LET fontCount          == GetUint32LE(view, 5)
             indexTableOffset   == GetUint32LE(view, 9)
             stringPoolOffset   == GetUint32LE(view, 13)
             fontDataPoolOffset == GetUint32LE(view, 17)
             maxIndexTableEnd   == indexTableOffset + fontCount * FontIndexEntrySize
         IN  IF \/ indexTableOffset >= Len(view)
                \/ stringPoolOffset >= Len(view)
                \/ fontDataPoolOffset >= Len(view)
                \/ maxIndexTableEnd > Len(view)
             THEN Null
             ELSE Some([version |-> At(view, 4), fontCount |-> fontCount,
                        indexTableOffset |-> indexTableOffset,
                        stringPoolOffset |-> stringPoolOffset,
                        fontDataPoolOffset |-> fontDataPoolOffset])

\* Map.set on a Map kept as a sequence of entries in insertion order.
MapSet(map, key, value) ==
    IF \E i \in 1..Len(map) : map[i].key = key
    THEN [i \in 1..Len(map) |-> IF map[i].key = key THEN [key |-> key, value |-> value] ELSE map[i]]
    ELSE Append(map, [key |-> key, value |-> value])

\* _parseFontIndex (771-802).
RECURSIVE ParseFontIndexFrom(_, _, _, _)
ParseFontIndexFrom(view, headerInfo, i, newFontIndex) ==
    IF i >= headerInfo.fontCount THEN newFontIndex
    ELSE LET entryAbsOffset == headerInfo.indexTableOffset + i * FontIndexEntrySize IN
         IF entryAbsOffset + FontIndexEntrySize > Len(view)
         THEN ParseFontIndexFrom(view, headerInfo, i + 1, newFontIndex)
         ELSE LET keyStrRelOffset   == GetUint32LE(view, entryAbsOffset)
                  fontDataRelOffset == GetUint32LE(view, entryAbsOffset + 4)
              IN  IF headerInfo.stringPoolOffset + keyStrRelOffset >= Len(view)
                  THEN ParseFontIndexFrom(view, headerInfo, i + 1, newFontIndex)
                  ELSE LET key == readNullTerminatedString(view,
                                      headerInfo.stringPoolOffset + keyStrRelOffset)
                       IN  ParseFontIndexFrom(view, headerInfo, i + 1,
                               IF key # <<>> THEN MapSet(newFontIndex, key, fontDataRelOffset)
                               ELSE newFontIndex)

_parseFontIndex(view, headerInfo) == ParseFontIndexFrom(view, headerInfo, 0, <<>>)

\* _getOrParseFontDetails (210-268), the parse itself: null stands for the caught Error.
ParseFontDetails(view, fontDataPoolOffset, fontDataOffsetInPool) ==
    LET fontBaseAbsOffset == fontDataPoolOffset + fontDataOffsetInPool IN
    IF fontBaseAbsOffset + 1 > Len(view) THEN Null
    ELSE IF fontBaseAbsOffset + 2 > Len(view) THEN Null
    ELSE LET nPairs        == At(view, fontBaseAbsOffset + 1)
             paletteOffset == fontBaseAbsOffset + 2
         IN  IF paletteOffset + nPairs * 2 > Len(view) THEN Null
             ELSE IF paletteOffset + nPairs * 2 + 1 > Len(view) THEN Null
             ELSE LET glyphCount       == At(view, paletteOffset + nPairs * 2)
                      gltAbsOffset     == paletteOffset + nPairs * 2 + 1
                      gdtBaseAbsOffset == gltAbsOffset + glyphCount * 3
                  IN  IF gdtBaseAbsOffset > Len(view) /\ glyphCount > 0 THEN Null
                      ELSE Some([spacing     |-> At(view, fontBaseAbsOffset),
                                 nPairs      |-> nPairs,
                                 pairPalette |->
                                     [i \in 1..nPairs |->
                                         [char |-> At(view, paletteOffset + 2 * (i - 1)),
                                          attr |-> At(view, paletteOffset + 2 * (i - 1) + 1)]],
                                 glyphCount       |-> glyphCount,
                                 gltAbsOffset     |-> gltAbsOffset,
                                 gdtBaseAbsOffset |-> gdtBaseAbsOffset])

\* _getOrParseFontDetails: the cached entry when there is one (211-213).
_getOrParseFontDetails(r, fontDataOffsetInPool) ==
    IF fontDataOffsetInPool \in DOMAIN r._parsedFontDetailsCache
    THEN Some(r._parsedFontDetailsCache[fontDataOffsetInPool])
    ELSE ParseFontDetails(Val(r._bundleBuffer), r._fontDataPoolOffset, fontDataOffsetInPool)

\* The cache after _getOrParseFontDetails: a successful parse is stored (259).
CacheAfterLookup(r, fontDataOffsetInPool) ==
    LET details == _getOrParseFontDetails(r, fontDataOffsetInPool) IN
    IF fontDataOffsetInPool \in DOMAIN r._parsedFontDetailsCache \/ IsNull(details)
    THEN r._parsedFontDetailsCache
    ELSE (fontDataOffsetInPool :> Val(details)) @@ r._parsedFontDetailsCache

\* A DataView read of n bytes at off returns a value only inside the view; any
\* other read throws a RangeError.
DataViewReadable(view, off, n) == off >= 0 /\ off + n <= Len(view)

\* What the model returns in the place of a glyph offset when a read of
\* _findGlyphOffsetInLookupTable (292, 294) throws its RangeError to the caller.
RangeErrorThrown == -2

\* The safety check of line 287.
GltEntryOutOfBounds(view, entryAbsOffset) == entryAbsOffset + 3 > Len(view)

\* The check of line 386 before the width and height bytes are read.
GlyphRecordUnchecked(view, glyphSpecificDataAbsOffset) == FALSE

GlyphRecordOutOfBounds(view, glyphSpecificDataAbsOffset) == glyphSpecificDataAbsOffset + 2 > Len(view)

\* _findGlyphOffsetInLookupTable (278-303): -1 when the character is not found.
BinarySearchStopsEarly(low, high) == low < high

BinarySearchContinues(low, high) == low <= high

RECURSIVE BinarySearchGlt(_, _, _, _, _)
BinarySearchGlt(view, gltAbsOffset, charCode, low, high) ==
    IF ~BinarySearchContinues(low, high) THEN -1
    ELSE LET mid            == (low + high) \div 2
             entryAbsOffset == gltAbsOffset + mid * 3
         IN  IF GltEntryOutOfBounds(view, entryAbsOffset) THEN -1
             ELSE IF ~DataViewReadable(view, entryAbsOffset, 3) THEN RangeErrorThrown
             ELSE LET entryCharCode == At(view, entryAbsOffset) IN
                  IF entryCharCode = charCode THEN GetUint16LE(view, entryAbsOffset + 1)
                  ELSE IF charCode < entryCharCode
                  THEN BinarySearchGlt(view, gltAbsOffset, charCode, low, mid - 1)
                  ELSE BinarySearchGlt(view, gltAbsOffset, charCode, mid + 1, high)

_findGlyphOffsetInLookupTable(view, gltAbsOffset, glyphCount, charCode) ==
    BinarySearchGlt(view, gltAbsOffset, charCode, 0, glyphCount - 1)

\* _getGlyphLayoutMetricsOnly (374-396) has no try block: whether a call ends in a
\* RangeError, from the table search or from the reads of lines 393-394.
MetricsThrows(r, fontDataOffsetInPool, charCode) ==
    LET view        == Val(r._bundleBuffer)
        fontDetails == _getOrParseFontDetails(r, fontDataOffsetInPool)
    IN  /\ ~IsNull(fontDetails)
        /\ Val(fontDetails).glyphCount # 0
        /\ LET glyphDataRelOffset ==
                   _findGlyphOffsetInLookupTable(view, Val(fontDetails).gltAbsOffset,
                                                 Val(fontDetails).glyphCount, charCode)
               glyphSpecificDataAbsOffset == Val(fontDetails).gdtBaseAbsOffset + glyphDataRelOffset
           IN  \/ glyphDataRelOffset = RangeErrorThrown
               \/ /\ glyphDataRelOffset # -1
                  /\ ~GlyphRecordOutOfBounds(view, glyphSpecificDataAbsOffset)
                  /\ ~DataViewReadable(view, glyphSpecificDataAbsOffset, 2)

\* _getGlyphLayoutMetricsOnly (374-396): the value it returns; a call that throws
\* returns none, which is null here.
_getGlyphLayoutMetricsOnly(r, fontDataOffsetInPool, charCode) ==
    LET view        == Val(r._bundleBuffer)
        fontDetails == _getOrParseFontDetails(r, fontDataOffsetInPool)
    IN  IF IsNull(fontDetails) THEN Null
        ELSE IF Val(fontDetails).glyphCount = 0 THEN Null
        ELSE LET glyphDataRelOffset ==
                     _findGlyphOffsetInLookupTable(view, Val(fontDetails).gltAbsOffset,
                                                   Val(fontDetails).glyphCount, charCode)
                 glyphSpecificDataAbsOffset == Val(fontDetails).gdtBaseAbsOffset + glyphDataRelOffset
             IN  IF glyphDataRelOffset = -1 \/ glyphDataRelOffset = RangeErrorThrown THEN Null
                 ELSE IF GlyphRecordOutOfBounds(view, glyphSpecificDataAbsOffset) THEN Null
                 ELSE IF ~DataViewReadable(view, glyphSpecificDataAbsOffset, 2) THEN Null
                 ELSE Some([width  |-> At(view, glyphSpecificDataAbsOffset),
                            height |-> At(view, glyphSpecificDataAbsOffset + 1)])

\* Lines 440-455: each decoded index goes back through the palette; an index
\* outside it gives the default cell (0x20, 0x07).
CellData(decodedIndices, pairPalette) ==
    Concat([k \in 1..Len(decodedIndices) |->
              IF decodedIndices[k] >= Len(pairPalette) THEN <<32, 7>>
              ELSE <<pairPalette[decodedIndices[k] + 1].char,
                     pairPalette[decodedIndices[k] + 1].attr>>])

\* parseGlyphDataOnDemand (405-464) around a given RLE decoder result: the flat
\* array [width, height, char1, attr1, ...], or null.
GlyphFromDecoded(width, height, decodedIndices, pairPalette) ==
    IF IsNull(decodedIndices) THEN Null
    ELSE Some(<<width, height>> \o CellData(Val(decodedIndices), pairPalette))

\* Lines 405-433: the glyph record's place, or null when the glyph is absent.
GlyphRecordOffset(r, fontDataOffsetInPool, charCode) ==
    LET view        == Val(r._bundleBuffer)
        fontDetails == _getOrParseFontDetails(r, fontDataOffsetInPool)
    IN  IF IsNull(fontDetails) THEN Null
        ELSE IF Val(fontDetails).glyphCount = 0 THEN Null
        ELSE LET glyphDataRelOffset ==
                     _findGlyphOffsetInLookupTable(view, Val(fontDetails).gltAbsOffset,
                                                   Val(fontDetails).glyphCount, charCode)
             IN  IF glyphDataRelOffset = -1 \/ glyphDataRelOffset = RangeErrorThrown THEN Null
                 ELSE IF Val(fontDetails).gdtBaseAbsOffset + glyphDataRelOffset + 2 > Len(view)
                 THEN Null
                 ELSE Some(Val(fontDetails).gdtBaseAbsOffset + glyphDataRelOffset)

\* parseGlyphDataOnDemand searches the table before its try block (417): whether
\* a call ends in a RangeError.
DecodeThrows(r, fontDataOffsetInPool, charCode) ==
    LET fontDetails == _getOrParseFontDetails(r, fontDataOffsetInPool) IN
    /\ ~IsNull(fontDetails)
    /\ Val(fontDetails).glyphCount # 0
    /\ _findGlyphOffsetInLookupTable(Val(r._bundleBuffer), Val(fontDetails).gltAbsOffset,
                                     Val(fontDetails).glyphCount, charCode) = RangeErrorThrown

parseGlyphDataOnDemand(r, fontDataOffsetInPool, charCode) ==
    LET view   == Val(r._bundleBuffer)
        record == GlyphRecordOffset(r, fontDataOffsetInPool, charCode)
    IN  IF IsNull(record) THEN Null
        ELSE LET width  == At(view, Val(record))
                 height == At(view, Val(record) + 1)
             IN  IF width * height = 0 THEN Some(<<width, height>>)
                 ELSE GlyphFromDecoded(width, height,
                          _decodeRLEStreamToPairIndices(view, Val(record) + 2, width * height),
                          Val(_getOrParseFontDetails(r, fontDataOffsetInPool)).pairPalette)

\* The same function in the other copy of the v4.0 renderer (src/unnamed/part_002
\* 389-448), which calls that copy's RLE decoder; a null from it is thrown and
\* caught, and the glyph is null.
parseGlyphDataOnDemand_part002(r, fontDataOffsetInPool, charCode) ==
    LET view   == Val(r._bundleBuffer)
        record == GlyphRecordOffset(r, fontDataOffsetInPool, charCode)
    IN  IF IsNull(record) THEN Null
        ELSE LET width  == At(view, Val(record))
                 height == At(view, Val(record) + 1)
             IN  IF width * height = 0 THEN Some(<<width, height>>)
                 ELSE GlyphFromDecoded(width, height,
                          _decodeRLEStreamToPairIndices_part002(view, Val(record) + 2, width * height),
                          Val(_getOrParseFontDetails(r, fontDataOffsetInPool)).pairPalette)

\* Array.from(_fontIndex.keys()).sort(): keys in ascending code-unit order (854).
RECURSIVE SortKeys(_)
SortKeys(keys) ==
    IF keys = {} THEN <<>>
    ELSE LET m == CHOOSE x \in keys : \A y \in keys : LexCompare(x, y, 1) <= 0
         IN  <<m>> \o SortKeys(keys \ {m})

getAvailableFonts(r) ==
    IF ~r._isInitialized THEN <<>>
    ELSE SortKeys({r._fontIndex[i].key : i \in 1..Len(r._fontIndex)})

\* _fontIndex.get(uniqueFontKey): the font data offset, or null for undefined.
FontIndexGet(r, uniqueFontKey) ==
    IF \E i \in 1..Len(r._fontIndex) : r._fontIndex[i].key = uniqueFontKey
    THEN Some(r._fontIndex[CHOOSE i \in 1..Len(r._fontIndex) : r._fontIndex[i].key = uniqueFontKey].value)
    ELSE Null

CharWidth == 8
CharHeight == 16
DefaultMinSpaceWidth == 3
DefaultAdditionalLineSpacingPx == 0

\* text.split("\n") on a text given as its character codes.
RECURSIVE SplitLines(_)
SplitLines(text) ==
    IF \A i \in 1..Len(text) : text[i] # 10 THEN <<text>>
    ELSE LET nl == CHOOSE i \in 1..Len(text) : text[i] = 10 /\ \A j \in 1..(i - 1) : text[j] # 10
         IN  <<SubSeq(text, 1, nl - 1)>> \o SplitLines(SubSeq(text, nl + 1, Len(text)))

\* _getCharLayoutMetrics (475-503).
SpaceLayoutMetrics(spaceMetrics, minSpaceWidthChars) ==
    IF ~IsNull(spaceMetrics) /\ Val(spaceMetrics).width > 0
    THEN [widthPx |-> Val(spaceMetrics).width * CharWidth,
          heightPx |-> Max(1, Val(spaceMetrics).height) * CharHeight, isDefined |-> TRUE]
    ELSE [widthPx |-> minSpaceWidthChars * CharWidth, heightPx |-> CharHeight, isDefined |-> TRUE]

GlyphLayoutMetrics(glyphMetrics) ==
    IF ~IsNull(glyphMetrics)
    THEN [widthPx |-> Val(glyphMetrics).width * CharWidth,
          heightPx |-> Max(1, Val(glyphMetrics).height) * CharHeight, isDefined |-> TRUE]
    ELSE [widthPx |-> 0, heightPx |-> CharHeight, isDefined |-> FALSE]

_getCharLayoutMetrics(r, fontDataOffsetInPool, char, minSpaceWidthChars) ==
    IF char = 32
    THEN SpaceLayoutMetrics(_getGlyphLayoutMetricsOnly(r, fontDataOffsetInPool, 32), minSpaceWidthChars)
    ELSE GlyphLayoutMetrics(_getGlyphLayoutMetricsOnly(r, fontDataOffsetInPool, char))

\* _getCharLayoutMetrics of src/tdfRenderer.js (v1.10), lines 352-384, for the
\* glyph metrics its lookup returned: a space glyph is used whatever its width.
SpaceLayoutMetrics_v110(spaceMetrics, minSpaceWidthChars) ==
    IF ~IsNull(spaceMetrics)
    THEN [widthPx |-> Val(spaceMetrics).width * CharWidth,
          heightPx |-> Max(1, Val(spaceMetrics).height) * CharHeight, isDefined |-> TRUE]
    ELSE [widthPx |-> minSpaceWidthChars * CharWidth, heightPx |-> CharHeight, isDefined |-> TRUE]

_getCharLayoutMetrics_v110(r, fontDataOffsetInPool, char, minSpaceWidthChars) ==
    IF char = 32
    THEN SpaceLayoutMetrics_v110(_getGlyphLayoutMetricsOnly(r, fontDataOffsetInPool, 32), minSpaceWidthChars)
    ELSE GlyphLayoutMetrics(_getGlyphLayoutMetricsOnly(r, fontDataOffsetInPool, char))

\* _renderLine (617-660): the pixels by which drawing one character moves the x
\* position, the spacing that may follow not counted.
SpaceRenderWidthPx(spaceMetrics, minSpaceWidthChars) ==
    IF ~IsNull(spaceMetrics) /\ Val(spaceMetrics).width > 0
    THEN Val(spaceMetrics).width * CharWidth
    ELSE minSpaceWidthChars * CharWidth

GlyphRenderWidthPx(r, fontDataOffsetInPool, char, minSpaceWidthChars) ==
    IF char = 32
    THEN SpaceRenderWidthPx(_getGlyphLayoutMetricsOnly(r, fontDataOffsetInPool, 32), minSpaceWidthChars)
    ELSE IF ~IsNull(parseGlyphDataOnDemand(r, fontDataOffsetInPool, char))
    THEN Val(parseGlyphDataOnDemand(r, fontDataOffsetInPool, char))[1] * CharWidth
    ELSE 0

\* The test of line 530: a glyph counts for the spacing between glyphs when it
\* has a width, and a space counts always.
OnlyWideGlyphsContribute(widthPx, char) == widthPx > 0

ContributesToSpacing(widthPx, char) == widthPx > 0 \/ char = 32

\* The loop of _calculateSingleLineLayout (523-533) over the first n characters:
\* the width, the largest height and the glyphs that count for spacing.
RECURSIVE LineLoop(_, _, _)
LineLoop(textLine, metrics, n) ==
    IF n = 0 THEN [lineWidthPx |-> 0, maxLineHeightPx |-> 0, glyphsContributingToSpacing |-> 0]
    ELSE LET before == LineLoop(textLine, metrics, n - 1) IN
         [lineWidthPx     |-> before.lineWidthPx + metrics[n].widthPx,
          maxLineHeightPx |-> Max(before.maxLineHeightPx, metrics[n].heightPx),
          glyphsContributingToSpacing |->
              before.glyphsContributingToSpacing
              + (IF ContributesToSpacing(metrics[n].widthPx, textLine[n]) THEN 1 ELSE 0)]

LineLayoutOf(loop, fontSpacingChars, textLine) ==
    [width  |-> Max(loop.lineWidthPx
                     + (IF loop.glyphsContributingToSpacing > 1
                        THEN (loop.glyphsContributingToSpacing - 1) * (fontSpacingChars * CharWidth)
                        ELSE 0),
                    IF Len(textLine) > 0 THEN CharWidth ELSE 0),
     height |-> Max(loop.maxLineHeightPx, CharHeight)]

\* _calculateSingleLineLayout (514-545).
_calculateSingleLineLayout(r, fontDataOffsetInPool, fontSpacingChars, textLine, minSpaceWidthChars) ==
    IF textLine = <<>> THEN [width |-> 0, height |-> CharHeight]
    ELSE LineLayoutOf(LineLoop(textLine,
                               TupleOf([i \in 1..Len(textLine) |->
                                   _getCharLayoutMetrics(r, fontDataOffsetInPool, textLine[i],
                                                         minSpaceWidthChars)]),
                               Len(textLine)),
                      fontSpacingChars, textLine)

\* Lines 908-911: the line gap follows every line but the last.
GapAfterEveryLine(n, numLines, additionalLineSpacingPx) == additionalLineSpacingPx

GapAfterLine(n, numLines, additionalLineSpacingPx) ==
    IF n < numLines THEN additionalLineSpacingPx ELSE 0

\* The loop of calculateLayout (903-912) over the first n lines.
RECURSIVE LayoutLoop(_, _, _)
LayoutLoop(lineLayouts, additionalLineSpacingPx, n) ==
    IF n = 0 THEN [overallMaxWidthPx |-> 0, totalHeightPx |-> 0]
    ELSE LET before == LayoutLoop(lineLayouts, additionalLineSpacingPx, n - 1) IN
         [overallMaxWidthPx |-> Max(before.overallMaxWidthPx, lineLayouts[n].width),
          totalHeightPx     |-> before.totalHeightPx + lineLayouts[n].height
                                + GapAfterLine(n, Len(lineLayouts), additionalLineSpacingPx)]

LayoutOf(loop) ==
    [width |-> Max(loop.overallMaxWidthPx, CharWidth), height |-> Max(loop.totalHeightPx, CharHeight)]

LayoutOfLines(r, fontDataOffsetInPool, fontSpacingChars, lines, minSpaceWidthChars, additionalLineSpacingPx) ==
    LayoutOf(LayoutLoop(TupleOf([i \in 1..Len(lines) |->
                            _calculateSingleLineLayout(r, fontDataOffsetInPool, fontSpacingChars,
                                                       lines[i], minSpaceWidthChars)]),
                        additionalLineSpacingPx, Len(lines)))

\* tdfRenderer.calculateLayout (869-919): the value it returns, null included.
LayoutForFont(r, fontDataOffsetInPool, text, minSpaceWidthChars, additionalLineSpacingPx) ==
    IF IsNull(fontDataOffsetInPool) THEN Null
    ELSE IF IsNull(_getOrParseFontDetails(r, Val(fontDataOffsetInPool))) THEN Null
    ELSE Some(LayoutOfLines(r, Val(fontDataOffsetInPool),
                            Val(_getOrParseFontDetails(r, Val(fontDataOffsetInPool))).spacing,
                            SplitLines(text), minSpaceWidthChars, additionalLineSpacingPx))

calculateLayoutWith(r, uniqueFontKey, text, minSpaceWidthChars, additionalLineSpacingPx) ==
    IF ~r._isInitialized THEN Null
    ELSE IF text = <<>> THEN Some([width |-> CharWidth, height |-> CharHeight])
    ELSE LayoutForFont(r, FontIndexGet(r, uniqueFontKey), text,
                       minSpaceWidthChars, additionalLineSpacingPx)

\* calculateLayout called with a key and a text only: the default parameters of
\* lines 872-873.
calculateLayout(r, uniqueFontKey, text) ==
    calculateLayoutWith(r, uniqueFontKey, text, DefaultMinSpaceWidth, DefaultAdditionalLineSpacingPx)

\* Whether calculateLayout ends in a RangeError: one of the metrics reads of the
\* characters it measures throws.
calculateLayoutThrows(r, uniqueFontKey, text) ==
    /\ r._isInitialized
    /\ text # <<>>
    /\ ~IsNull(FontIndexGet(r, uniqueFontKey))
    /\ ~IsNull(_getOrParseFontDetails(r, Val(FontIndexGet(r, uniqueFontKey))))
    /\ \E i \in 1..Len(text) :
          text[i] # 10 /\ MetricsThrows(r, Val(FontIndexGet(r, uniqueFontKey)), text[i])

\* The cache after calculateLayout or render: the font of the key has been
\* looked up, unless the call returned before line 890 (1037).
CacheAfterKeyLookup(r, uniqueFontKey) ==
    IF IsNull(FontIndexGet(r, uniqueFontKey)) THEN r._parsedFontDetailsCache
    ELSE CacheAfterLookup(r, Val(FontIndexGet(r, uniqueFontKey)))

\* A filter of filterFontsByText that asks a glyph of every character of the text.
EveryCharIsRequired(charCode) == TRUE

\* The filter of filterFontsByText (940-944): spaces and newlines ask no glyph,
\* nor does a character outside 33..126.
IsRequiredChar(charCode) ==
    charCode # 32 /\ charCode # 10 /\ charCode >= 33 /\ charCode <= 126

\* requiredChars of filterFontsByText (940-944), as a set.
RequiredChars(text) ==
    {text[i] : i \in {j \in 1..Len(text) : IsRequiredChar(text[j])}}

\* tdfRenderer.filterFontsByText (930-958).
filterFontsByText(r, text) ==
    IF ~r._isInitialized THEN <<>>
    ELSE IF text = <<>> \/ RequiredChars(text) = {} THEN getAvailableFonts(r)
    ELSE SortKeys({r._fontIndex[i].key :
                     i \in {j \in 1..Len(r._fontIndex) :
                               \A c \in RequiredChars(text) :
                                  ~IsNull(_getGlyphLayoutMetricsOnly(r, r._fontIndex[j].value, c))}})

\* Whether filterFontsByText ends in a RangeError thrown by a metrics read.
filterFontsByTextThrows(r, text) ==
    /\ r._isInitialized
    /\ \E i \in 1..Len(r._fontIndex), c \in RequiredChars(text) :
          MetricsThrows(r, r._fontIndex[i].value, c)

\* The cache after filterFontsByText: every font of the index has been looked up
\* when some character is required.
RECURSIVE CacheAfterLookups(_, _)
CacheAfterLookups(r, n) ==
    IF n = 0 THEN r._parsedFontDetailsCache
    ELSE CacheAfterLookup([r EXCEPT !._parsedFontDetailsCache = CacheAfterLookups(r, n - 1)],
                          r._fontIndex[n].value)

CacheAfterFilter(r, text) ==
    IF RequiredChars(text) = {} THEN r._parsedFontDetailsCache
    ELSE CacheAfterLookups(r, Len(r._fontIndex))

\* tdfRenderer.render (1022-1100) in a browser, where a canvas can be made: the
\* promise rejects, or resolves with the canvas.
render(r, uniqueFontKey, text) ==
    IF ~r._isInitialized THEN "rejected"
    ELSE IF uniqueFontKey = <<>> THEN "rejected"
    ELSE IF IsNull(FontIndexGet(r, uniqueFontKey)) THEN "rejected"
    ELSE IF IsNull(_getOrParseFontDetails(r, Val(FontIndexGet(r, uniqueFontKey)))) THEN "rejected"
    ELSE IF calculateLayoutThrows(r, uniqueFontKey, text) THEN "rejected"
    ELSE IF IsNull(calculateLayout(r, uniqueFontKey, text)) THEN "rejected"
    ELSE IF \E i \in 1..Len(text) : DecodeThrows(r, Val(FontIndexGet(r, uniqueFontKey)), text[i])
    THEN "rejected"
    ELSE "canvas"

\* tdfRenderer.init after the fetch has resolved with `bytes` (822-837).  When the
\* header is rejected the Error leaves init with the buffer already replaced and
\* the cache cleared.
InitAfterFetch(r, bytes) ==
    LET headerInfo == _parseBundleHeader(bytes) IN
    IF IsNull(headerInfo)
    THEN [r EXCEPT !._bundleBuffer = Some(bytes), !._parsedFontDetailsCache = <<>>]
    ELSE [r EXCEPT !._bundleBuffer = Some(bytes),
                   !._parsedFontDetailsCache = <<>>,
                   !._actualBundleFormatVersion = Val(headerInfo).version,
                   !._stringPoolOffset = Val(headerInfo).stringPoolOffset,
                   !._fontDataPoolOffset = Val(headerInfo).fontDataPoolOffset,
                   !._fontIndex = _parseFontIndex(bytes, Val(headerInfo)),
                   !._isInitialized = TRUE]

----------------------------------------------------------------------------
(* tdfRenderer.render: where the lines and their glyphs are painted *)

\* _renderTdfGlyphOnCanvas (557-601): the extent of the cells it paints from the
\* glyph's origin.  Cell i of the first width x height cells that the data holds
\* is painted at column i % width and row floor(i / width).
PaintedCells(glyphCompactData) ==
    Min(glyphCompactData[1] * glyphCompactData[2], (Len(glyphCompactData) - 2) \div 2)

PaintedExtent(glyphCompactData, cells) ==
    IF cells = 0 THEN [w |-> 0, h |-> 0]
    ELSE [w |-> Min(cells, glyphCompactData[1]) * CharWidth,
          h |-> ((cells + glyphCompactData[1] - 1) \div glyphCompactData[1]) * CharHeight]

\* What _renderLine (617-660) paints for one character and how far it advances:
\* a space is a filled rectangle of its width and one cell row (637-647), since
\* glyphCompactData is null for a space (624); another character is painted when
\* its glyph holds cells (649-656).
PaintOf(glyphCompactData, char, glyphRenderWidthPx) ==
    IF char = 32
    THEN IF glyphRenderWidthPx > 0
         THEN [advance |-> glyphRenderWidthPx, w |-> glyphRenderWidthPx, h |-> CharHeight]
         ELSE [advance |-> glyphRenderWidthPx, w |-> 0, h |-> 0]
    ELSE IF ~IsNull(glyphCompactData) /\ Len(Val(glyphCompactData)) > 2
    THEN [advance |-> glyphRenderWidthPx,
          w |-> PaintedExtent(Val(glyphCompactData), PaintedCells(Val(glyphCompactData))).w,
          h |-> PaintedExtent(Val(glyphCompactData), PaintedCells(Val(glyphCompactData))).h]
    ELSE [advance |-> glyphRenderWidthPx, w |-> 0, h |-> 0]

\* A spacing that follows every character but the last, whatever its width.
SpacingAfterEveryChar(i, lineLength, glyphRenderWidthPx, spacingPx) ==
    IF i < lineLength THEN spacingPx ELSE 0

\* Lines 662-666: the font's spacing follows a character that is not the last of
\* the line and has a width.
SpacingAfterChar(i, lineLength, glyphRenderWidthPx, spacingPx) ==
    IF i < lineLength /\ glyphRenderWidthPx > 0 THEN spacingPx ELSE 0

\* The loop of _renderLine (617-667) over the first n characters: currentX and
\* the rectangles painted so far (w = 0 when the character paints nothing).
RECURSIVE RenderLineLoop(_, _, _, _, _)
RenderLineLoop(paints, lineStartX, lineBaseY, spacingPx, n) ==
    IF n = 0 THEN [currentX |-> lineStartX, boxes |-> <<>>]
    ELSE LET before == RenderLineLoop(paints, lineStartX, lineBaseY, spacingPx, n - 1) IN
         [currentX |-> before.currentX + paints[n].advance
                       + SpacingAfterChar(n, Len(paints), paints[n].advance, spacingPx),
          boxes    |-> Append(before.boxes,
                              [x |-> before.currentX, y |-> lineBaseY, advance |-> paints[n].advance,
                               w |-> paints[n].w, h |-> paints[n].h])]

\* _renderLine (606-668): the rectangles it paints.
_renderLine(r, lineText, lineBaseY, lineStartX, fontDataOffsetInPool, fontSpacingChars, minSpaceWidthChars) ==
    RenderLineLoop(TupleOf([i \in 1..Len(lineText) |->
                       PaintOf(IF lineText[i] = 32 THEN Null
                               ELSE parseGlyphDataOnDemand(r, fontDataOffsetInPool, lineText[i]),
                               lineText[i],
                               GlyphRenderWidthPx(r, fontDataOffsetInPool, lineText[i],
                                                  minSpaceWidthChars))]),
                   lineStartX, lineBaseY, fontSpacingChars * CharWidth, Len(lineText)).boxes

\* Lines 690-696: the indentation of a line inside the text block.
LineIndentPx(textAlign, textBlockWidthPx, currentLineWidthPx) ==
    IF textAlign = "center" THEN Max(0, (textBlockWidthPx - currentLineWidthPx) \div 2)
    ELSE IF textAlign = "right" THEN Max(0, textBlockWidthPx - currentLineWidthPx)
    ELSE 0

\* _renderLineWithAlignment (674-711), given the line's layout (685): where the
\* line starts, what is painted and the height it returns.
AlignedLine(r, lineText, lineLayout, lineBaseY, lineStartX, fontDataOffsetInPool, fontSpacingChars, minSpaceWidthChars) ==
    [y |-> lineBaseY, startX |-> lineStartX, layout |-> lineLayout,
     boxes |-> _renderLine(r, lineText, lineBaseY, lineStartX, fontDataOffsetInPool,
                           fontSpacingChars, minSpaceWidthChars)]

_renderLineWithAlignment(r, lineText, lineBaseY, textBlockStartX, textBlockWidthPx, textAlign, fontDataOffsetInPool, fontSpacingChars, minSpaceWidthChars) ==
    AlignedLine(r, lineText,
                _calculateSingleLineLayout(r, fontDataOffsetInPool, fontSpacingChars, lineText,
                                           minSpaceWidthChars),
                lineBaseY,
                textBlockStartX
                + LineIndentPx(textAlign, textBlockWidthPx,
                               _calculateSingleLineLayout(r, fontDataOffsetInPool, fontSpacingChars,
                                                          lineText, minSpaceWidthChars).width),
                fontDataOffsetInPool, fontSpacingChars, minSpaceWidthChars)

\* The loop of render (1073-1092) over the first n lines: currentY and the lines
\* rendered so far.
RECURSIVE RenderLoop(_, _, _, _, _, _, _, _, _)
RenderLoop(r, lines, blockStartX, overallTextMaxWidthPx, textAlign, fontDataOffsetInPool, minSpaceWidthChars, additionalLineSpacingPx, n) ==
    IF n = 0 THEN [currentY |-> 0, rendered |-> <<>>]
    ELSE LET before == RenderLoop(r, lines, blockStartX, overallTextMaxWidthPx, textAlign,
                                  fontDataOffsetInPool, minSpaceWidthChars,
                                  additionalLineSpacingPx, n - 1)
             line   == _renderLineWithAlignment(
                           r, lines[n], before.currentY, blockStartX, overallTextMaxWidthPx,
                           textAlign, fontDataOffsetInPool,
                           Val(_getOrParseFontDetails(r, fontDataOffsetInPool)).spacing,
                           minSpaceWidthChars)
         IN  [currentY |-> before.currentY + line.layout.height
                           + (IF n < Len(lines) THEN additionalLineSpacingPx ELSE 0),
              rendered |-> Append(before.rendered, line)]

\* _prepareCanvasAndContext (987-988): the size given to the canvas.
CanvasSize(targetWidth, layout) ==
    [width |-> Max(Max(targetWidth, layout.width), CharWidth), height |-> Max(layout.height, CharHeight)]

\* Line 1067.
BlockStartX(canvasWidth, overallTextMaxWidthPx) ==
    Max(0, (canvasWidth - overallTextMaxWidthPx) \div 2)

\* tdfRenderer.render (1022-1100) from the layout on (1058-1094): the canvas and
\* what is painted on it.
RenderWithLayout(r, fontDataOffsetInPool, text, layout, canvas, textAlign, minSpaceWidthChars, additionalLineSpacingPx) ==
    [canvas |-> canvas, layout |-> layout,
     blockStartX |-> BlockStartX(canvas.width, layout.width),
     lines |-> RenderLoop(r, SplitLines(text), BlockStartX(canvas.width, layout.width),
                          layout.width, textAlign, fontDataOffsetInPool, minSpaceWidthChars,
                          additionalLineSpacingPx, Len(SplitLines(text))).rendered]

\* tdfRenderer.render with its drawing options: null stands for the rejected
\* promise (1023-1041, 1059-1061).
renderWith(r, uniqueFontKey, text, textAlign, targetWidth, minSpaceWidthChars, additionalLineSpacingPx) ==
    IF render(r, uniqueFontKey, text) = "rejected" THEN Null
    ELSE Some(RenderWithLayout(
                 r, Val(FontIndexGet(r, uniqueFontKey)), text,
                 Val(calculateLayoutWith(r, uniqueFontKey, text, minSpaceWidthChars,
                                         additionalLineSpacingPx)),
                 CanvasSize(targetWidth,
                            Val(calculateLayoutWith(r, uniqueFontKey, text, minSpaceWidthChars,
                                                    additionalLineSpacingPx))),
                 textAlign, minSpaceWidthChars, additionalLineSpacingPx))

----------------------------------------------------------------------------
(* tdfRenderer.init of src/tdfRenderer.js (v1.10), lines 527-594: whether the   *)
(* header checks let a fetched buffer through.                                  *)

LegacyRendererInitAccepts(bytes) ==
    /\ Len(bytes) >= 21
    /\ DecodeUtf8(SubSeq(bytes, 1, 4)) = BIN_MAGIC_STRING
    /\ At(bytes, 4) = 1
    /\ GetUint32LE(bytes, 9) < Len(bytes)
    /\ GetUint32LE(bytes, 13) < Len(bytes)
    /\ GetUint32LE(bytes, 17) < Len(bytes)
    /\ GetUint32LE(bytes, 9) + GetUint32LE(bytes, 5) * 8 <= Len(bytes)

----------------------------------------------------------------------------
(* Initial values of the state *)

\* main() has not run yet.
PackNotRun == [status |-> "notrun", exitCode |-> 0, processedFontsData |-> <<>>,
               fontIndexTableData |-> <<>>, bundle |-> <<>>]

\* part_001 lines 66-77.
RendererInitialState ==
    [_bundleBuffer |-> Null, _fontIndex |-> <<>>, _stringPoolOffset |-> 0,
     _fontDataPoolOffset |-> 0, _isInitialized |-> FALSE, _actualBundleFormatVersion |-> 0,
     _parsedFontDetailsCache |-> <<>>]

NoOperation == [op |-> "none"]

CodecIdle == [kind |-> "none", phase |-> "idle", flat |-> <<>>, runs |-> <<>>, stream |-> <<>>,
              expected |-> 0, decoded |-> Null, endOffset |-> 0]

----------------------------------------------------------------------------
(* Input files.  A TDF file is given by its name, its size, the header blocks  *)
(* parseFontHeaders finds in it and the bytes of its glyph data; a header's    *)
(* dataBlockStartOffset and character table point into those bytes.            *)

\* One glyph as it lies in the file: declared width, the height byte, the stream.
GlyphImage(g) == <<g.width, g.height>> \o g.stream

FontImage(glyphs) == Concat([k \in 1..Len(glyphs) |-> GlyphImage(glyphs[k])])

CharTable(glyphs) ==
    [c \in SUPPORTED_CHAR_LIST |->
        IF \E k \in 1..Len(glyphs) : glyphs[k].char = c
        THEN SumLen([k \in 1..Len(glyphs) |-> GlyphImage(glyphs[k])],
                    (CHOOSE k \in 1..Len(glyphs) : glyphs[k].char = c) - 1)
        ELSE TdfOffsetUndefined]

FontSpec(fontType, name, letterSpacingRaw, glyphs) ==
    [fontType |-> fontType, name |-> name, letterSpacingRaw |-> letterSpacingRaw,
     glyphs |-> glyphs]

TdfFile(name, fontSpecs) ==
    LET images == [h \in 1..Len(fontSpecs) |-> FontImage(fontSpecs[h].glyphs)] IN
    [name       |-> name,
     byteLength |-> TDF_FONT_METADATA_BLOCK_SIZE * Len(fontSpecs) + Len(Concat(images)),
     headers    |-> [h \in 1..Len(fontSpecs) |->
                       [fontType             |-> fontSpecs[h].fontType,
                        nameBytes            |-> fontSpecs[h].name \o Repeat(0, 12 - Len(fontSpecs[h].name)),
                        nameLength           |-> Len(fontSpecs[h].name),
                        letterSpacingRaw     |-> fontSpecs[h].letterSpacingRaw,
                        charTable            |-> CharTable(fontSpecs[h].glyphs),
                        dataBlockStartOffset |-> SumLen(images, h - 1)]],
     buffer     |-> Concat(images)]

Glyph(char, width, stream) == [char |-> char, width |-> width, height |-> 1, stream |-> stream]

\* width cells (65, first), (65, first + 1), ... in one line: all pairs distinct.
Ramp(first, width) == Concat([i \in 1..width |-> <<65, first + i - 1>>])

\* Glyphs with every line exactly as long as the declared width.
ExactGlyphs ==
    << Glyph(33, 1, <<33, 7, 0>>),
       Glyph(65, 2, <<65, 7, 65, 7, 0>>),
       Glyph(66, 2, <<66, 1, 66, 1, 13, 66, 1, 66, 1, 0>>),
       Glyph(67, 1, <<67, 2, 13, 32, 0, 0>>),
       Glyph(126, 3, <<126, 7, 65, 7, 33, 7, 0>>) >>

\* Short lines, a glyph without cells, and a last glyph that runs to the end of
\* the file without a terminator.
RaggedGlyphs ==
    << Glyph(33, 2, <<0>>),
       Glyph(65, 3, <<65, 7, 13, 66, 1, 66, 1, 66, 1, 0>>),
       Glyph(126, 2, <<90, 7, 90, 7, 13, 90>>) >>

\* A line longer than the declared width, and a glyph of declared width 0.
OverlongGlyphs ==
    << Glyph(33, 0, <<66, 7, 0>>),
       Glyph(65, 1, <<65, 7, 66, 7, 0>>),
       Glyph(126, 2, <<67, 7, 13, 67, 7, 67, 7, 67, 7, 0>>) >>

VariantGlyphs ==
    << Glyph(65, 1, <<97, 7, 0>>),
       Glyph(126, 1, <<98, 7, 13, 98, 1, 0>>) >>

\* 2 x 130 equal cells: one run of 260.
LongRunGlyphs ==
    << Glyph(65, 130, Concat(Repeat(<<88, 4>>, 130)) \o <<13>>
                      \o Concat(Repeat(<<88, 4>>, 130)) \o <<0>>),
       Glyph(126, 1, <<66, 7, 0>>) >>

\* 255 empty lines and a line of one cell: a glyph of 256 lines.
TallGlyphs ==
    << Glyph(65, 1, Repeat(13, 255) \o <<65, 7, 0>>),
       Glyph(126, 1, <<66, 7, 0>>) >>

\* '!' of 3 x 2 cells, 'A' of 2 x 1 cells, '~' of 1 x 3 cells.
LayoutGlyphs ==
    << Glyph(33, 3, <<33, 7, 33, 7, 33, 7, 13, 33, 7, 33, 7, 33, 7, 0>>),
       Glyph(65, 2, <<65, 7, 65, 7, 0>>),
       Glyph(126, 1, <<126, 7, 13, 126, 7, 13, 126, 7, 0>>) >>

\* '!' without cells (width 0) and 'A' of one cell.
NarrowGlyphs ==
    << Glyph(33, 0, <<0>>),
       Glyph(65, 1, <<65, 7, 0>>) >>

Ramp255Glyphs  == << Glyph(65, 255, Ramp(0, 255) \o <<0>>) >>
Ramp254Glyphs  == << Glyph(65, 254, Ramp(1, 254) \o <<0>>), Glyph(126, 1, <<65, 9, 0>>) >>
Ramp254RaggedGlyphs == << Glyph(65, 254, Ramp(1, 254) \o <<0>>), Glyph(126, 2, <<65, 9, 0>>) >>

Name_F == <<70>>
Name_G == <<71>>
Name_H == <<72>>
Name_SpaceF == <<32, 70, 32>>                      \* " F "

File_a      == TdfFile(<<97, 46, 116, 100, 102>>,                   \* "a.tdf"
                 << FontSpec(2, Name_F, 2, ExactGlyphs), FontSpec(2, Name_G, 1, VariantGlyphs) >>)
File_b      == TdfFile(<<98, 46, 116, 100, 102>>,                   \* "b.tdf"
                 << FontSpec(1, Name_G, 1, <<>>), FontSpec(2, <<>>, 0, RaggedGlyphs) >>)
File_aBang  == TdfFile(<<97, 33, 46, 116, 100, 102>>,               \* "a!.tdf"
                 << FontSpec(2, Name_F, 1, OverlongGlyphs) >>)
File_aQuery == TdfFile(<<97, 63, 46, 116, 100, 102>>,               \* "a?.tdf"
                 << FontSpec(2, Name_SpaceF, 3, VariantGlyphs) >>)
File_c      == TdfFile(<<99, 46, 116, 100, 102>>,                   \* "c.tdf"
                 << FontSpec(2, Name_F, 1, Ramp255Glyphs), FontSpec(2, Name_G, 1, Ramp254Glyphs) >>)
File_e      == TdfFile(<<101, 46, 84, 68, 70>>,                     \* "e.TDF"
                 << FontSpec(2, Name_F, 1, Ramp254RaggedGlyphs), FontSpec(2, Name_G, 1, <<>>),
                    FontSpec(2, Name_H, 1, LongRunGlyphs) >>)
File_t      == TdfFile(<<116, 46, 116, 100, 102>>,                  \* "t.tdf"
                 << FontSpec(2, Name_F, 1, TallGlyphs) >>)
File_s      == TdfFile(<<115, 46, 116, 100, 102>>,                  \* "s.tdf"
                 << FontSpec(2, Name_F, 2, LayoutGlyphs), FontSpec(2, Name_G, 3, NarrowGlyphs) >>)
\* w.tdf holds a letter spacing byte above the 1..41 the TDF format uses.
File_w      == TdfFile(<<119, 46, 116, 100, 102>>,                  \* "w.tdf"
                 << FontSpec(2, Name_F, 200, VariantGlyphs) >>)
File_txt    == TdfFile(<<103, 46, 116, 120, 116>>,                  \* "g.txt"
                 << FontSpec(2, Name_F, 1, VariantGlyphs) >>)
File_small  == [name |-> <<104, 46, 116, 100, 102>>, byteLength |-> 100,    \* "h.tdf"
                headers |-> <<>>, buffer |-> <<>>]

\* The files whose bundles the renderer is started on, and all files.
FontFiles == {File_a, File_b, File_aBang, File_aQuery, File_c, File_e}

FileCatalogue == FontFiles \cup {File_t, File_w, File_txt, File_small}

MaxFiles == 2           \* most files in a directory that is packed
MaxServedFiles == 1     \* most files in a directory whose bundle the renderer loads
MaxTruncate == 1        \* most bytes a fetch may lose at the end of the bundle

\* The directory listings of up to n files out of `files`: distinct files, in the
\* order readdir returns them.
RECURSIVE Listings(_, _)
Listings(files, n) ==
    IF n = 0 THEN {<<>>}
    ELSE LET shorter == Listings(files, n - 1) IN
         shorter \cup {Append(q, f) : q \in {t \in shorter : Len(t) = n - 1}, f \in files}

Directories(files, n) ==
    {d \in Listings(files, n) : \A i, j \in 1..Len(d) : i # j => d[i].name # d[j].name}

\* The orders in which another run may enumerate the same files.
EnumerationOrders(d) ==
    {p \in [1..Len(d) -> 1..Len(d)] : \A i, j \in 1..Len(d) : i # j => p[i] # p[j]}

QueryChars == {33, 64, 65, 126}

----------------------------------------------------------------------------
(* The packer run on a directory, and the renderer started on what it wrote.   *)

Init ==
    /\ filesInDir \in Directories(FontFiles, MaxServedFiles)
    /\ pack = PackNotRun
    /\ rdr = RendererInitialState
    /\ initPc = 0
    /\ lastOp = NoOperation
    /\ codec = CodecIdle

\* node tdfPacker.js: main() from start to end.
RunPacker ==
    /\ pack.status = "notrun"
    /\ pack' = main(filesInDir)
    /\ lastOp' = [op |-> "pack"]
    /\ UNCHANGED <<filesInDir, rdr, initPc, codec>>

\* tdfRenderer.init up to the await (816-820), called while fewer than `limit`
\* earlier calls wait for their fetch.
StartInit(limit) ==
    /\ initPc < limit
    /\ pack.status # "notrun"
    /\ IF rdr._isInitialized
       THEN /\ lastOp' = [op |-> "init", result |-> Some(getAvailableFonts(rdr))]
            /\ UNCHANGED initPc
       ELSE /\ initPc' = initPc + 1
            /\ lastOp' = [op |-> "initCall"]
    /\ UNCHANGED <<filesInDir, pack, rdr, codec>>

\* The page calls init and waits for it before it calls init again.
InitCall == StartInit(1)

\* The fetch resolves (820-837) with the bundle file, of which the transfer may
\* have lost the last k bytes.
FetchResolve ==
    /\ initPc > 0
    /\ pack.status = "written"
    /\ \E k \in 0..MaxTruncate :
          LET bytes == SubSeq(pack.bundle, 1, Len(pack.bundle) - k) IN
          /\ rdr' = InitAfterFetch(rdr, bytes)
          /\ lastOp' = [op |-> "init", lost |-> k,
                        result |-> IF InitAfterFetch(rdr, bytes)._isInitialized
                                   THEN Some(getAvailableFonts(InitAfterFetch(rdr, bytes)))
                                   ELSE Null]
    /\ initPc' = initPc - 1
    /\ UNCHANGED <<filesInDir, pack, codec>>

\* The fetches that wait once fetchBinary has thrown (93-96): the error is
\* thrown on to init's caller and the fetch is not issued again.
PendingAfterRetry(pending) == pending

PendingAfterFailure(pending) == pending - 1

\* fetchBinary throws (87-98): no file, or a network error; init rejects at 822.
FetchFail ==
    /\ initPc > 0
    /\ initPc' = PendingAfterFailure(initPc)
    /\ lastOp' = [op |-> "init", result |-> Null]
    /\ UNCHANGED <<filesInDir, pack, rdr, codec>>

\* The font data offsets the renderer knows.
KnownFontOffsets(r) == {r._fontIndex[i].value : i \in 1..Len(r._fontIndex)}

\* _getGlyphLayoutMetricsOnly for a known font and a character.
GlyphMetricsQuery ==
    /\ rdr._isInitialized
    /\ \E off \in KnownFontOffsets(rdr), c \in QueryChars :
          /\ lastOp' = [op |-> "metrics", font |-> off, char |-> c,
                        threw  |-> MetricsThrows(rdr, off, c),
                        result |-> _getGlyphLayoutMetricsOnly(rdr, off, c)]
          /\ rdr' = [rdr EXCEPT !._parsedFontDetailsCache = CacheAfterLookup(rdr, off)]
    /\ UNCHANGED <<filesInDir, pack, initPc, codec>>

\* parseGlyphDataOnDemand for a known font and a character; result002 is what
\* the part_002 copy of the function returns on the same state.
GlyphDecodeQuery ==
    /\ rdr._isInitialized
    /\ \E off \in KnownFontOffsets(rdr), c \in QueryChars :
          /\ lastOp' = [op |-> "decode", font |-> off, char |-> c,
                        threw     |-> DecodeThrows(rdr, off, c),
                        result    |-> parseGlyphDataOnDemand(rdr, off, c),
                        result002 |-> parseGlyphDataOnDemand_part002(rdr, off, c)]
          /\ rdr' = [rdr EXCEPT !._parsedFontDetailsCache = CacheAfterLookup(rdr, off)]
    /\ UNCHANGED <<filesInDir, pack, initPc, codec>>

Next ==
    \/ RunPacker
    \/ InitCall
    \/ FetchResolve
    \/ FetchFail
    \/ GlyphMetricsQuery
    \/ GlyphDecodeQuery

Spec == Init /\ [][Next]_vars

----------------------------------------------------------------------------
(* The packer alone, on larger directories, run twice over the same files.     *)

InitPack ==
    /\ filesInDir \in Directories(FileCatalogue, MaxFiles)
    /\ pack = PackNotRun
    /\ rdr = RendererInitialState
    /\ initPc = 0
    /\ lastOp = NoOperation
    /\ codec = CodecIdle

\* The run that follows the first one: main() over the same files, which readdir
\* lists in the order p this time.
RepackResult(order, again) ==
    [op |-> "repack", order |-> order, status |-> again.status, bundle |-> again.bundle]

RunPackerAgain ==
    /\ lastOp.op = "pack"
    /\ \E p \in EnumerationOrders(filesInDir) :
          lastOp' = RepackResult(p, main([i \in 1..Len(filesInDir) |-> filesInDir[p[i]]]))
    /\ UNCHANGED <<filesInDir, pack, rdr, initPc, codec>>

\* node tdfPacker.js on a directory that cannot be read.
RunPackerUnreadable ==
    /\ pack.status = "notrun"
    /\ pack' = mainOnUnreadableDirectory
    /\ lastOp' = [op |-> "packUnreadable"]
    /\ UNCHANGED <<filesInDir, rdr, initPc, codec>>

NextPack == RunPacker \/ RunPackerAgain \/ RunPackerUnreadable

SpecPack == InitPack /\ [][NextPack]_vars

----------------------------------------------------------------------------
(* The renderer on a bundle the packer has written: init calls that overlap,   *)
(* fetches that deliver a damaged copy of the file, and the calls of the API.  *)

MaxPendingInits == 2    \* most init() calls that wait for their fetch at once
MaxLostBytes == 2       \* most bytes a served file has lost at its end

LoadDirectories == {<<File_a>>}

\* The values a damaged byte of a served file may have.
DamageBytes == {0, 255}

\* Where a served file may differ from the written bundle b in one byte: the
\* magic tag, the version, the font count, the offsets of the index table and
\* of the font data pool, the first index entry, and in the first font's block
\* the pair count, the glyph count, the first lookup entry and the size of the
\* first glyph.
FirstBlockOffset(b) == GetUint32LE(b, 17) + GetUint32LE(b, GetUint32LE(b, 9) + 4)

FirstGltOffset(b) == FirstBlockOffset(b) + 2 + 2 * At(b, FirstBlockOffset(b) + 1) + 1

FirstGdtOffset(b) == FirstGltOffset(b) + 3 * At(b, FirstGltOffset(b) - 1)

DamageOffsets(b) ==
    {0, 4, 5, 9, 17, GetUint32LE(b, 9), GetUint32LE(b, 9) + 4,
     FirstBlockOffset(b) + 1, FirstGltOffset(b) - 1,
     FirstGltOffset(b), FirstGltOffset(b) + 1, FirstGltOffset(b) + 2,
     FirstGdtOffset(b), FirstGdtOffset(b) + 1}

\* How many bytes of b a served file may have: none, a header cut short, the
\* header alone, or all but the last few.
ServedLengths(b) ==
    {0, BundleHeaderSize - 1, BundleHeaderSize} \cup {Len(b) - k : k \in 0..MaxLostBytes}

\* The served files: b cut to a length, or b with one byte replaced.
Damages(b) ==
    {[length |-> n, at |-> -1, byte |-> 0] : n \in ServedLengths(b)}
    \cup {[length |-> Len(b), at |-> o, byte |-> v] : o \in DamageOffsets(b), v \in DamageBytes}

ServedFile(b, d) ==
    IF d.at < 0 THEN SubSeq(b, 1, d.length)
    ELSE [i \in 1..Len(b) |-> IF i = d.at + 1 THEN d.byte ELSE b[i]]

AbsentKey == <<122>>                               \* "z"

QueryKeys(r) == {r._fontIndex[i].key : i \in 1..Len(r._fontIndex)} \cup {AbsentKey}

\* "", "A ~", "!\n@"
QueryTexts == {<<>>, <<65, 32, 126>>, <<33, 10, 64>>}

\* The texts filterFontsByText is asked about: those above and "!", which one
\* font of a.tdf defines and the other does not.
FilterTexts == QueryTexts \cup {<<33>>}

\* The packer has written the bundle of the directory.
InitLoad ==
    /\ filesInDir \in LoadDirectories
    /\ pack = main(filesInDir)
    /\ rdr = RendererInitialState
    /\ initPc = 0
    /\ lastOp = NoOperation
    /\ codec = CodecIdle

\* The page calls init without waiting for an earlier call.
OverlappingInitCall == StartInit(MaxPendingInits)

\* The fetch of one waiting init call resolves (820-837) with a served file.
FetchResolveServed ==
    /\ initPc > 0
    /\ pack.status = "written"
    /\ \E d \in Damages(pack.bundle) :
          /\ rdr' = InitAfterFetch(rdr, ServedFile(pack.bundle, d))
          /\ lastOp' = [op |-> "init", bytes |-> ServedFile(pack.bundle, d),
                        wasInitialized |-> rdr._isInitialized,
                        result |-> IF IsNull(_parseBundleHeader(ServedFile(pack.bundle, d)))
                                   THEN Null
                                   ELSE Some(getAvailableFonts(
                                                InitAfterFetch(rdr, ServedFile(pack.bundle, d))))]
    /\ initPc' = initPc - 1
    /\ UNCHANGED <<filesInDir, pack, codec>>

\* tdfRenderer.getAvailableFonts.
ListFontsQuery ==
    /\ rdr._isInitialized
    /\ lastOp' = [op |-> "list", threw |-> FALSE, result |-> getAvailableFonts(rdr)]
    /\ UNCHANGED <<filesInDir, pack, rdr, initPc, codec>>

\* tdfRenderer.filterFontsByText.
FilterQuery ==
    /\ rdr._isInitialized
    /\ \E text \in FilterTexts :
          /\ lastOp' = [op |-> "filter", text |-> text,
                        threw  |-> filterFontsByTextThrows(rdr, text),
                        result |-> filterFontsByText(rdr, text)]
          /\ rdr' = [rdr EXCEPT !._parsedFontDetailsCache = CacheAfterFilter(rdr, text)]
    /\ UNCHANGED <<filesInDir, pack, initPc, codec>>

\* tdfRenderer.calculateLayout.
MeasureQuery ==
    /\ rdr._isInitialized
    /\ \E key \in QueryKeys(rdr), text \in QueryTexts :
          /\ lastOp' = [op |-> "measure", key |-> key, text |-> text,
                        threw  |-> calculateLayoutThrows(rdr, key, text),
                        result |-> calculateLayout(rdr, key, text)]
          /\ rdr' = [rdr EXCEPT !._parsedFontDetailsCache =
                                    IF text = <<>> THEN rdr._parsedFontDetailsCache
                                    ELSE CacheAfterKeyLookup(rdr, key)]
    /\ UNCHANGED <<filesInDir, pack, initPc, codec>>

\* tdfRenderer.render.
RenderQuery ==
    /\ rdr._isInitialized
    /\ \E key \in QueryKeys(rdr), text \in QueryTexts :
          /\ lastOp' = [op |-> "render", key |-> key, text |-> text,
                        result |-> render(rdr, key, text)]
          /\ rdr' = [rdr EXCEPT !._parsedFontDetailsCache = CacheAfterKeyLookup(rdr, key)]
    /\ UNCHANGED <<filesInDir, pack, initPc, codec>>

NextLoad ==
    \/ OverlappingInitCall
    \/ FetchResolveServed
    \/ FetchFail
    \/ ListFontsQuery
    \/ FilterQuery
    \/ MeasureQuery
    \/ RenderQuery
    \/ GlyphMetricsQuery
    \/ GlyphDecodeQuery

SpecLoad == InitLoad /\ [][NextLoad]_vars

----------------------------------------------------------------------------
(* Measuring lines and texts with the fonts of a loaded bundle.                *)

MaxLineLen == 3         \* most characters of a measured line
MaxLines == 2           \* most lines of a measured text

\* ' ', '@' (in no font), 'A', '~'
LayoutChars == {32, 64, 65, 126}

MinSpaceWidths == {0, 3}
LineGaps == {0, 5}

LayoutDirectories == {<<File_s>>}

\* The offset of the lookup table of the font of index entry i (from 0) of b.
GltOffsetOfEntry(b, i) ==
    LET block == GetUint32LE(b, 17) + GetUint32LE(b, GetUint32LE(b, 9) + 8 * i + 4)
    IN  block + 2 + 2 * At(b, block + 1) + 1

\* A bundle like b whose fonts define a space: in each font the glyph of '!'
\* is listed for the character 32 instead.
WithSpaceGlyphs(b) ==
    [k \in 1..Len(b) |->
        IF b[k] = 33 /\ \E i \in 0..(GetUint32LE(b, 5) - 1) : GltOffsetOfEntry(b, i) = k - 1
        THEN 32 ELSE b[k]]

\* The bundle files the renderer is started on.
LayoutBundles(b) == {b, WithSpaceGlyphs(b)}

LinesUpTo(n) == UNION {[1..m -> LayoutChars] : m \in 0..n}

\* The lines that measured texts are made of: "", "A", "A A", "@", " ~"
TextLines == {<<>>, <<65>>, <<65, 32, 65>>, <<64>>, <<32, 126>>}

\* lines.join("\n")
RECURSIVE JoinLines(_)
JoinLines(lines) ==
    IF Len(lines) = 1 THEN lines[1]
    ELSE lines[1] \o <<10>> \o JoinLines(Tail(lines))

LayoutTexts == {JoinLines(lines) : lines \in UNION {[1..m -> TextLines] : m \in 1..MaxLines}}

\* The calls whose arguments a run starts with.
LineCalls(r) ==
    {[op |-> "lineCall", font |-> off, textLine |-> textLine, minSpaceWidthChars |-> m] :
        off \in {o \in KnownFontOffsets(r) : ~IsNull(_getOrParseFontDetails(r, o))},
        textLine \in LinesUpTo(MaxLineLen), m \in MinSpaceWidths}

CharCalls(r) ==
    {[op |-> "charCall", font |-> off, char |-> c, minSpaceWidthChars |-> m] :
        off \in {o \in KnownFontOffsets(r) : ~IsNull(_getOrParseFontDetails(r, o))},
        c \in LayoutChars, m \in MinSpaceWidths}

LayoutCalls(r) ==
    {[op |-> "layoutCall", key |-> key, text |-> text, minSpaceWidthChars |-> m,
      additionalLineSpacingPx |-> gap] :
        key \in QueryKeys(r), text \in LayoutTexts, m \in MinSpaceWidths, gap \in LineGaps}

\* The drawing options of the render calls; a target width of 0 stands for none.
TextAligns == {"left", "center", "right"}
TargetWidths == {0, 100}

RenderCall(key, text, align, tw, m, gap) ==
    [op |-> "renderCall", key |-> key, text |-> text, textAlign |-> align, targetWidth |-> tw,
     minSpaceWidthChars |-> m, additionalLineSpacingPx |-> gap]

\* The render calls: every single line (where a line gap has no part), and the
\* texts of several lines with every line gap.
RenderCalls(r) ==
    {RenderCall(key, text, align, tw, m, 0) :
        key \in QueryKeys(r), text \in LinesUpTo(MaxLineLen), align \in TextAligns,
        tw \in TargetWidths, m \in MinSpaceWidths}
    \cup
    {RenderCall(key, text, align, tw, m, gap) :
        key \in QueryKeys(r), text \in LayoutTexts, align \in TextAligns,
        tw \in TargetWidths, m \in MinSpaceWidths, gap \in LineGaps}

\* The packer has written the bundle, init has succeeded on a bundle file, and
\* a call is about to be made.
InitLayout ==
    /\ filesInDir \in LayoutDirectories
    /\ pack = main(filesInDir)
    /\ rdr \in {InitAfterFetch(RendererInitialState, b) : b \in LayoutBundles(pack.bundle)}
    /\ initPc = 0
    /\ \/ lastOp \in CharCalls(rdr)
       \/ lastOp \in LineCalls(rdr)
       \/ lastOp \in LayoutCalls(rdr)
       \/ lastOp \in RenderCalls(rdr)
    /\ codec = CodecIdle

\* One character measured by _getCharLayoutMetrics and drawn by _renderLine;
\* result110 is what _getCharLayoutMetrics of src/tdfRenderer.js returns for the
\* same glyph metrics.
MeasureChar ==
    /\ lastOp.op = "charCall"
    /\ lastOp' = [op |-> "char", font |-> lastOp.font, char |-> lastOp.char,
                  minSpaceWidthChars |-> lastOp.minSpaceWidthChars,
                  result    |-> _getCharLayoutMetrics(rdr, lastOp.font, lastOp.char,
                                                     lastOp.minSpaceWidthChars),
                  result110 |-> _getCharLayoutMetrics_v110(rdr, lastOp.font, lastOp.char,
                                                          lastOp.minSpaceWidthChars),
                  advance   |-> GlyphRenderWidthPx(rdr, lastOp.font, lastOp.char,
                                                   lastOp.minSpaceWidthChars)]
    /\ rdr' = [rdr EXCEPT !._parsedFontDetailsCache = CacheAfterLookup(rdr, lastOp.font)]
    /\ UNCHANGED <<filesInDir, pack, initPc, codec>>

\* _calculateSingleLineLayout, as calculateLayout and _renderLineWithAlignment
\* call it: for a font whose details were parsed, with the font's spacing.
MeasureLine ==
    /\ lastOp.op = "lineCall"
    /\ lastOp' = [op |-> "line", font |-> lastOp.font, textLine |-> lastOp.textLine,
                  minSpaceWidthChars |-> lastOp.minSpaceWidthChars,
                  result |-> _calculateSingleLineLayout(
                                rdr, lastOp.font, Val(_getOrParseFontDetails(rdr, lastOp.font)).spacing,
                                lastOp.textLine, lastOp.minSpaceWidthChars)]
    /\ rdr' = [rdr EXCEPT !._parsedFontDetailsCache = CacheAfterLookup(rdr, lastOp.font)]
    /\ UNCHANGED <<filesInDir, pack, initPc, codec>>

\* tdfRenderer.calculateLayout with all four arguments.
MeasureText ==
    /\ lastOp.op = "layoutCall"
    /\ lastOp' = [op |-> "layout", key |-> lastOp.key, text |-> lastOp.text,
                  minSpaceWidthChars |-> lastOp.minSpaceWidthChars,
                  additionalLineSpacingPx |-> lastOp.additionalLineSpacingPx,
                  result |-> calculateLayoutWith(rdr, lastOp.key, lastOp.text, lastOp.minSpaceWidthChars,
                                                 lastOp.additionalLineSpacingPx)]
    /\ rdr' = [rdr EXCEPT !._parsedFontDetailsCache =
                              IF lastOp.text = <<>> THEN rdr._parsedFontDetailsCache
                              ELSE CacheAfterKeyLookup(rdr, lastOp.key)]
    /\ UNCHANGED <<filesInDir, pack, initPc, codec>>

\* tdfRenderer.render with its drawing options.
RenderText ==
    /\ lastOp.op = "renderCall"
    /\ lastOp' = [op |-> "render", key |-> lastOp.key, text |-> lastOp.text,
                  textAlign |-> lastOp.textAlign, targetWidth |-> lastOp.targetWidth,
                  minSpaceWidthChars |-> lastOp.minSpaceWidthChars,
                  additionalLineSpacingPx |-> lastOp.additionalLineSpacingPx,
                  result |-> renderWith(rdr, lastOp.key, lastOp.text, lastOp.textAlign,
                                        lastOp.targetWidth, lastOp.minSpaceWidthChars,
                                        lastOp.additionalLineSpacingPx)]
    /\ rdr' = [rdr EXCEPT !._parsedFontDetailsCache = CacheAfterKeyLookup(rdr, lastOp.key)]
    /\ UNCHANGED <<filesInDir, pack, initPc, codec>>

NextLayout ==
    \/ MeasureChar
    \/ MeasureLine
    \/ MeasureText
    \/ RenderText

SpecLayout == InitLayout /\ [][NextLayout]_vars

----------------------------------------------------------------------------
(* The RLE codec on its own: encodeGlyphToRLEStream's run-length step and      *)
(* _decodeRLEStreamToPairIndices applied to inputs drawn from bounded sets.    *)

MaxRunLen == 520        \* longest single-index sequence (above 2 x 258)
MaxFlatLen == 4         \* longest mixed index sequence
MaxBufLen == 4          \* longest arbitrary byte stream handed to the decoder
MaxExpectedCells == 5   \* largest expected cell count for an arbitrary stream

CodecIndexValues == {0, 7, 253, 255}
MixedIndexValues == {0, 7, 255}
StreamByteValues == {0, 1, 7, 255}

RECURSIVE SeqsUpTo(_, _)
SeqsUpTo(S, n) ==
    IF n = 0 THEN {<<>>}
    ELSE LET shorter == SeqsUpTo(S, n - 1) IN
         shorter \cup {Append(q, x) : q \in {t \in shorter : Len(t) = n - 1}, x \in S}

CodecInput(kind, flat, stream, expected) ==
    [kind |-> kind, phase |-> "input", flat |-> flat, runs |-> <<>>, stream |-> stream,
     expected |-> expected, decoded |-> Null, endOffset |-> 0]

InitCodec ==
    /\ filesInDir = <<>>
    /\ pack = PackNotRun
    /\ rdr = RendererInitialState
    /\ initPc = 0
    /\ lastOp = NoOperation
    /\ codec \in
         {CodecInput("uniform", Repeat(x, L), <<>>, L) : x \in CodecIndexValues, L \in 1..MaxRunLen}
         \cup {CodecInput("mixed", f, <<>>, Len(f)) : f \in SeqsUpTo(MixedIndexValues, MaxFlatLen) \ {<<>>}}
         \cup {CodecInput("stream", <<>>, b, n) : b \in SeqsUpTo(StreamByteValues, MaxBufLen),
                                                 n \in 0..MaxExpectedCells}

\* The encoder's run-length step on a flat index sequence.
CodecEncode ==
    /\ codec.phase = "input"
    /\ codec.kind \in {"uniform", "mixed"}
    /\ codec' = [codec EXCEPT !.phase = "encoded",
                              !.runs = EncodeRuns(codec.flat, 0),
                              !.stream = RleEncode(codec.flat)]
    /\ UNCHANGED <<filesInDir, pack, rdr, initPc, lastOp>>

\* The decoder on what the encoder wrote, with the sequence's length as expected count.
CodecDecode ==
    /\ codec.phase = "encoded"
    /\ codec' = [codec EXCEPT !.phase = "decoded",
                              !.decoded = _decodeRLEStreamToPairIndices(codec.stream, 0, codec.expected),
                              !.endOffset = DecodeEndOffset(codec.stream, 0, codec.expected)]
    /\ UNCHANGED <<filesInDir, pack, rdr, initPc, lastOp>>

\* The decoder on an arbitrary byte stream.
CodecDecodeStream ==
    /\ codec.phase = "input"
    /\ codec.kind = "stream"
    /\ codec' = [codec EXCEPT !.phase = "decoded",
                              !.decoded = _decodeRLEStreamToPairIndices(codec.stream, 0, codec.expected),
                              !.endOffset = DecodeEndOffset(codec.stream, 0, codec.expected)]
    /\ UNCHANGED <<filesInDir, pack, rdr, initPc, lastOp>>

NextCodec == CodecEncode \/ CodecDecode \/ CodecDecodeStream

SpecCodec == InitCodec /\ [][NextCodec]_vars

----------------------------------------------------------------------------
(* The legacy glyph parser on its own: extractRawGlyphCellsAndDimensions       *)
(* applied to byte buffers drawn from a bounded set.                           *)

MaxGlyphBufLen == 7     \* longest buffer handed to the parser, the two size bytes included

\* The terminator, the row separator, a character code and a byte that serves
\* as attribute or as another character code.
GlyphBufferBytes == {TdfGlyphTerminator, TdfRowSeparator, 65, 7}

\* The font metadata of the calls: the glyph of 'A' begins at the buffer's start.
GlyphFontMeta == [dataBlockStartOffset |-> 0, offsets |-> (65 :> 0)]

GlyphCalls ==
    {[op |-> "glyphCall", buffer |-> b, charKey |-> c] :
        b \in SeqsUpTo(GlyphBufferBytes, MaxGlyphBufLen), c \in {65, 66}}

InitGlyph ==
    /\ filesInDir = <<>>
    /\ pack = PackNotRun
    /\ rdr = RendererInitialState
    /\ initPc = 0
    /\ codec = CodecIdle
    /\ lastOp \in GlyphCalls

\* TdfParser.extractRawGlyphCellsAndDimensions on the buffer of the call.
ExtractGlyph ==
    /\ lastOp.op = "glyphCall"
    /\ lastOp' = [op |-> "glyph", buffer |-> lastOp.buffer, charKey |-> lastOp.charKey,
                  result |-> extractRawGlyphCellsAndDimensions(lastOp.buffer, GlyphFontMeta,
                                                               lastOp.charKey)]
    /\ UNCHANGED <<filesInDir, pack, rdr, initPc, codec>>

NextGlyph == ExtractGlyph

SpecGlyph == InitGlyph /\ [][NextGlyph]_vars

----------------------------------------------------------------------------
(* Reading a byte stream by the format's grammar (escape triple or literal),   *)
(* independently of the decoder's cell counting.                               *)

\* The complete tokens of view from offset off: where each starts, how many bytes
\* it takes and which cells it stands for.  TokenStep reads one token.
TokenStep(view, r) ==
    IF r.done THEN r
    ELSE IF r.off >= Len(view) THEN [r EXCEPT !.done = TRUE]
    ELSE IF At(view, r.off) = RLE_ESCAPE_BYTE
    THEN IF r.off + 3 > Len(view) THEN [r EXCEPT !.done = TRUE]
         ELSE [r EXCEPT !.off = r.off + 3,
                        !.tokens = Append(r.tokens,
                            [start |-> r.off, bytes |-> 3, escape |-> TRUE,
                             cells |-> Repeat(At(view, r.off + 2),
                                              At(view, r.off + 1) + RLE_MIN_RUN_LENGTH)])]
    ELSE [r EXCEPT !.off = r.off + 1,
                   !.tokens = Append(r.tokens,
                       [start |-> r.off, bytes |-> 1, escape |-> FALSE,
                        cells |-> <<At(view, r.off)>>])]

RECURSIVE TokenLoop(_, _, _)
TokenLoop(view, r, n) ==
    IF r.done \/ n = 0 THEN r
    ELSE IF n = 1 THEN TokenStep(view, r)
    ELSE TokenLoop(view, TokenLoop(view, r, n \div 2), n - n \div 2)

StreamTokens(view, off) ==
    TokenLoop(view, [off |-> off, tokens |-> <<>>, done |-> FALSE], Len(view) + 1).tokens

\* Number of cells the first n tokens stand for.
RECURSIVE CellsOfTokens(_, _)
CellsOfTokens(tokens, n) ==
    IF n = 0 THEN 0 ELSE CellsOfTokens(tokens, n - 1) + Len(tokens[n].cells)

AllCellsOfTokens(tokens) == Concat([k \in 1..Len(tokens) |-> tokens[k].cells])

\* How the encoder wrote each byte position: the kinds of its runs, one entry per token.
EncoderTokenKinds(runs) ==
    Concat([r \in 1..Len(runs) |->
              IF runs[r].escaped THEN <<TRUE>> ELSE Repeat(FALSE, runs[r].runLength)])

\* The bytes the encoder pushed as literal indices.
EncoderLiteralBytes(runs) ==
    Concat([r \in 1..Len(runs) |->
              IF runs[r].escaped THEN <<>> ELSE Repeat(ToByte(runs[r].index), runs[r].runLength)])

----------------------------------------------------------------------------
(* Claims about the codec *)

C6_DecodeExactCellCount ==
    (codec.kind = "stream" /\ codec.phase = "decoded") =>
        LET tokens == StreamTokens(codec.stream, 0)
            cells  == AllCellsOfTokens(tokens)
            out    == Val(codec.decoded)
        IN  /\ ~IsNull(codec.decoded)
            /\ Len(out) = codec.expected
            /\ \A i \in 1..codec.expected :
                  out[i] = IF i <= Len(cells) THEN cells[i] ELSE 0
            /\ \A k \in 1..Len(tokens) :
                  tokens[k].start < codec.endOffset => CellsOfTokens(tokens, k - 1) < codec.expected

\* C6 witness: a run that goes past the expected count was cut, with bytes left unread.
C6_Witness ==
    /\ codec.kind = "stream" /\ codec.phase = "decoded"
    /\ codec.expected > 0
    /\ codec.endOffset < Len(codec.stream)
    /\ LET tokens == StreamTokens(codec.stream, 0) IN
       \E k \in 1..Len(tokens) :
          /\ tokens[k].escape
          /\ tokens[k].start + tokens[k].bytes = codec.endOffset
          /\ CellsOfTokens(tokens, k) > codec.expected

----------------------------------------------------------------------------
(* Relating what the renderer reads to what the packer was given *)

\* The renderer holds the whole bundle file the packer wrote.
WholeBundleLoaded == rdr._isInitialized /\ rdr._bundleBuffer = Some(pack.bundle)

\* The packed font whose data block lies at offset off of the font data pool.
HasPackedFontAt(off) ==
    \E i \in 1..Len(pack.fontIndexTableData) : pack.fontIndexTableData[i].dataOffsetInPool = off

PackedFontAt(off) ==
    pack.processedFontsData[CHOOSE i \in 1..Len(pack.fontIndexTableData) :
                               pack.fontIndexTableData[i].dataOffsetInPool = off]

\* A glyph as the parser returned it, written out as the renderer's flat array:
\* every cell of every line in order, a short line filled up with the padding pair.
GridCells(rawGlyph) ==
    Concat([y \in 1..rawGlyph.actualHeight |->
              LET line == IF y <= Len(rawGlyph.lines) THEN rawGlyph.lines[y] ELSE <<>> IN
              Concat([x \in 1..Len(line) |-> <<line[x].charByte, line[x].attrByte>>])
              \o Concat(Repeat(<<PADDING_CHAR, PADDING_ATTR>>,
                               Max(0, rawGlyph.declaredWidth - Len(line))))])

ExpectedGlyph(rawGlyph) ==
    <<rawGlyph.declaredWidth, rawGlyph.actualHeight>> \o GridCells(rawGlyph)

\* The glyph lookup table of the font at pool offset off, read entry by entry from
\* the bytes the renderer holds: the characters listed and each one's record.
BundleFontDetails(off) == ParseFontDetails(Val(rdr._bundleBuffer), rdr._fontDataPoolOffset, off)

ListedEntries(off, charCode) ==
    LET d == Val(BundleFontDetails(off)) IN
    {k \in 0..(d.glyphCount - 1) : At(Val(rdr._bundleBuffer), d.gltAbsOffset + 3 * k) = charCode}

OwnRecordOffset(off, k) ==
    LET d == Val(BundleFontDetails(off)) IN
    d.gdtBaseAbsOffset + GetUint16LE(Val(rdr._bundleBuffer), d.gltAbsOffset + 3 * k + 1)

----------------------------------------------------------------------------
(* Claims about packing and decoding *)

\* C1: for every packed color font (at most 254 distinct pairs) and every glyph of
\* it, decoding the glyph from the bundle gives back the glyph cell for cell:
\* declared width, number of lines and every cell in row-major order, with the
\* padding pair (0x20, 0x00) wherever a short line was filled up.
C1_GlyphRoundTrip ==
    (/\ lastOp.op = "decode"
     /\ WholeBundleLoaded
     /\ HasPackedFontAt(lastOp.font)
     /\ lastOp.char \in DOMAIN PackedFontAt(lastOp.font).allGlyphRawData)
    => lastOp.result = Some(ExpectedGlyph(PackedFontAt(lastOp.font).allGlyphRawData[lastOp.char]))

\* C2: for every font of a bundle and every character code, a character listed in
\* the font's glyph lookup table is found by the binary search and the lookup gives
\* that character's own record (its width and height); a character that is not
\* listed gives absent (null).
C2_LookupCorrect ==
    (/\ lastOp.op \in {"metrics", "decode"}
     /\ WholeBundleLoaded
     /\ HasPackedFontAt(lastOp.font))
    => LET view   == Val(rdr._bundleBuffer)
           listed == ListedEntries(lastOp.font, lastOp.char)
           d      == Val(BundleFontDetails(lastOp.font))
           found  == _findGlyphOffsetInLookupTable(view, d.gltAbsOffset, d.glyphCount, lastOp.char)
       IN  IF listed = {}
           THEN found = -1 /\ IsNull(lastOp.result)
           ELSE \E k \in listed :
                   /\ d.gdtBaseAbsOffset + found = OwnRecordOffset(lastOp.font, k)
                   /\ ~IsNull(lastOp.result)
                   /\ lastOp.char \in DOMAIN PackedFontAt(lastOp.font).encodedGlyphs
                   /\ LET rec == OwnRecordOffset(lastOp.font, k)
                          g   == PackedFontAt(lastOp.font).encodedGlyphs[lastOp.char]
                      IN  /\ At(view, rec) = g.width /\ At(view, rec + 1) = g.height
                          /\ IF lastOp.op = "metrics"
                             THEN Val(lastOp.result) = [width |-> g.width, height |-> g.height]
                             ELSE Val(lastOp.result)[1] = g.width /\ Val(lastOp.result)[2] = g.height

\* C2 witness: a listed character that is not the table's middle entry was looked
\* up in a font of at least three glyphs, and its metrics came back.
C2_Witness ==
    /\ lastOp.op = "metrics"
    /\ WholeBundleLoaded
    /\ HasPackedFontAt(lastOp.font)
    /\ ~IsNull(lastOp.result)
    /\ LET d == Val(BundleFontDetails(lastOp.font)) IN
       /\ d.glyphCount >= 3
       /\ (d.glyphCount - 1) \div 2 \notin ListedEntries(lastOp.font, lastOp.char)

\* The cells the bytes from a glyph's RLE stream to the end of the buffer stand for.
SuppliedCells(view, streamOffset) == AllCellsOfTokens(StreamTokens(view, streamOffset))

\* A glyph query met a stream that supplies fewer than width x height cells.
ShortStreamDecoded ==
    /\ lastOp.op = "decode"
    /\ rdr._isInitialized
    /\ ~IsNull(GlyphRecordOffset(rdr, lastOp.font, lastOp.char))
    /\ LET view == Val(rdr._bundleBuffer)
           rec  == Val(GlyphRecordOffset(rdr, lastOp.font, lastOp.char))
       IN  /\ At(view, rec) * At(view, rec + 1) > 0
           /\ Len(SuppliedCells(view, rec + 2)) < At(view, rec) * At(view, rec + 1)

\* The glyph the claim asks for when the stream is short: width x height cells,
\* the supplied ones first, palette index 0 for each missing one.
PaddedGlyph ==
    LET view == Val(rdr._bundleBuffer)
        rec  == Val(GlyphRecordOffset(rdr, lastOp.font, lastOp.char))
        w    == At(view, rec)
        h    == At(view, rec + 1)
        got  == SuppliedCells(view, rec + 2)
    IN  <<w, h>> \o CellData([i \in 1..(w * h) |-> IF i <= Len(got) THEN got[i] ELSE 0],
                             Val(BundleFontDetails(lastOp.font)).pairPalette)

\* C7: when a glyph's RLE stream supplies fewer than width x height cells, decoding
\* the glyph gives no error but a glyph of exactly width x height cells, in which
\* the supplied cells keep their values and every missing cell is palette index 0;
\* this holds for the decoder of part_001 and for the one of part_002.
C7_ShortStreamPadded ==
    ShortStreamDecoded =>
        /\ lastOp.result = Some(PaddedGlyph)
        /\ lastOp.result002 = Some(PaddedGlyph)

\* C10: every bundle the packer writes passes the header checks of tdfRenderer.js
\* init (magic tag, format version, offsets), so that init does not reject it.
C10_LegacyRendererAcceptsBundle ==
    pack.status = "written" => LegacyRendererInitAccepts(pack.bundle)

----------------------------------------------------------------------------
(* Claims about the packer *)

\* C3: packing the same directory twice gives byte-identical bundles, also when the
\* second run enumerates the files in another order.
C3_RepackIdentical ==
    lastOp.op = "repack" => (lastOp.status = pack.status /\ lastOp.bundle = pack.bundle)

\* The palette of the i-th packed font as it stands in the bundle file.
PaletteInBundle(i) ==
    Val(ParseFontDetails(pack.bundle, GetUint32LE(pack.bundle, 17),
                         pack.fontIndexTableData[i].dataOffsetInPool)).pairPalette

\* The (character, attribute) pairs that occur in the cells of a font's glyphs.
CellPairs(allGlyphRawData) ==
    UNION {UNION {{[char |-> allGlyphRawData[c].lines[y][x].charByte,
                    attr |-> allGlyphRawData[c].lines[y][x].attrByte] :
                      x \in 1..Len(allGlyphRawData[c].lines[y])} :
                  y \in 1..Len(allGlyphRawData[c].lines)} :
           c \in DOMAIN allGlyphRawData}

\* Some glyph of the font has a line shorter than its declared width.
HasShortLine(allGlyphRawData) ==
    \E c \in DOMAIN allGlyphRawData :
       \E y \in 1..Len(allGlyphRawData[c].lines) :
          Len(allGlyphRawData[c].lines[y]) < allGlyphRawData[c].declaredWidth

\* C8: for every font written to the bundle the pair palette is sorted by character
\* and then attribute, holds no pair twice, contains every pair that occurs in a
\* cell of the font's glyphs, and contains the padding pair (0x20, 0x00) whenever
\* some glyph has a line shorter than its declared width.
C8_PaletteSortedComplete ==
    (lastOp.op = "pack" /\ pack.status = "written") =>
        \A i \in 1..Len(pack.processedFontsData) :
           LET font == pack.processedFontsData[i]
               pal  == PaletteInBundle(i)
           IN  /\ pal = font.pairPalette
               /\ \A a, b \in 1..Len(pal) :
                     a < b => \/ pal[a].char < pal[b].char
                              \/ pal[a].char = pal[b].char /\ pal[a].attr < pal[b].attr
               /\ \A p \in CellPairs(font.allGlyphRawData) : InSeq(pal, p)
               /\ HasShortLine(font.allGlyphRawData) => InSeq(pal, PaddingPair)

\* C8 witness: a written font with a short line whose palette holds the padding
\* pair although no cell of the font has it, next to at least two other pairs.
C8_Witness ==
    /\ lastOp.op = "pack" /\ pack.status = "written"
    /\ \E i \in 1..Len(pack.processedFontsData) :
          LET font == pack.processedFontsData[i] IN
          /\ HasShortLine(font.allGlyphRawData)
          /\ PaddingPair \notin CellPairs(font.allGlyphRawData)
          /\ InSeq(PaletteInBundle(i), PaddingPair)
          /\ Len(PaletteInBundle(i)) >= 3

\* The fonts main() reaches the palette step with: header h of file f is a color
\* font with at least one glyph, in a file main() parses.
PaletteCandidates(dir) ==
    {fh \in {<<f, h>> : f \in 1..Len(dir),
                        h \in 1..SetMax({0} \cup {Len(dir[g].headers) : g \in 1..Len(dir)})} :
        /\ fh[2] <= Len(dir[fh[1]].headers)
        /\ ToLowerCase(ExtName(dir[fh[1]].name)) = TdfSuffix
        /\ dir[fh[1]].byteLength >= TDF_FONT_METADATA_BLOCK_SIZE
        /\ ~IsNull(_extractFontMetadataFromHeader(dir[fh[1]].name, dir[fh[1]].headers[fh[2]]))
        /\ DOMAIN AllGlyphRawData(dir[fh[1]].buffer,
               Val(_extractFontMetadataFromHeader(dir[fh[1]].name, dir[fh[1]].headers[fh[2]]))) # {}}

\* The number of palette entries of such a font, counted as a set: its cell pairs,
\* and the padding pair when the font requires padding.
PaletteEntryCount(dir, fh) ==
    LET raw == AllGlyphRawData(dir[fh[1]].buffer,
                   Val(_extractFontMetadataFromHeader(dir[fh[1]].name, dir[fh[1]].headers[fh[2]])))
    IN  Cardinality(CellPairs(raw) \cup (IF FontRequiresPadding(raw) THEN {PaddingPair} ELSE {}))

PackedFromSource(fh) ==
    {i \in 1..Len(pack.processedFontsData) :
        pack.processedFontsData[i].source = [file |-> fh[1], header |-> fh[2]]}

\* C9: a font whose palette, with the padding pair when required, has more than 254
\* entries is left out of the bundle, and every other font of the batch, in the
\* same file and in other files, is still packed and written.
C9_OverflowFontLeftOut ==
    lastOp.op = "pack" =>
        /\ \A fh \in PaletteCandidates(filesInDir) :
              IF PaletteEntryCount(filesInDir, fh) > MaxPalettePairs
              THEN PackedFromSource(fh) = {}
              ELSE Cardinality(PackedFromSource(fh)) = 1 /\ pack.status = "written"
        /\ pack.status = "written" => GetUint32LE(pack.bundle, 5) = Len(pack.processedFontsData)
        /\ \A i \in 1..Len(pack.processedFontsData) :
              <<pack.processedFontsData[i].source.file, pack.processedFontsData[i].source.header>>
                 \in PaletteCandidates(filesInDir)

\* C9 witness: a font of exactly 255 palette entries was left out while a font of
\* the same file and a font of another file were packed.
C9_Witness ==
    /\ lastOp.op = "pack" /\ pack.status = "written"
    /\ \E fh \in PaletteCandidates(filesInDir) :
          /\ PaletteEntryCount(filesInDir, fh) = MaxPalettePairs + 1
          /\ PackedFromSource(fh) = {}
          /\ \E i, j \in 1..Len(pack.processedFontsData) :
                /\ pack.processedFontsData[i].source.file = fh[1]
                /\ pack.processedFontsData[j].source.file # fh[1]

----------------------------------------------------------------------------
(* Claims about the layout of the bundle file *)

RECURSIVE SumTo(_, _)
SumTo(numbers, n) == IF n = 0 THEN 0 ELSE SumTo(numbers, n - 1) + numbers[n]

\* The sizes the format gives to a key in the string pool and to a font block:
\* spacing, palette size, two bytes per pair, glyph count, three bytes per lookup
\* entry, and per glyph its width, its height and its RLE stream.
KeySizes == [i \in 1..Len(pack.processedFontsData) |-> Len(pack.processedFontsData[i].uniqueKey) + 1]

GlyphRecordSize(glyphData) == 2 + Len(glyphData.rleStream)

FontBlockSize(fontInfo) ==
    LET chars == AscendingChars(DOMAIN fontInfo.encodedGlyphs) IN
    2 + 2 * fontInfo.nPairs + 1 + 3 * Len(chars)
    + SumTo([k \in 1..Len(chars) |-> GlyphRecordSize(fontInfo.encodedGlyphs[chars[k]])], Len(chars))

FontBlockSizes == [i \in 1..Len(pack.processedFontsData) |-> FontBlockSize(pack.processedFontsData[i])]

\* The fields of the written file, read back from its bytes.
WrittenIndexTableOffset == GetUint32LE(pack.bundle, 9)
WrittenStringPoolOffset == GetUint32LE(pack.bundle, 13)
WrittenFontDataPoolOffset == GetUint32LE(pack.bundle, 17)
WrittenKeyOffset(i) == GetUint32LE(pack.bundle, WrittenIndexTableOffset + 8 * (i - 1))
WrittenDataOffset(i) == GetUint32LE(pack.bundle, WrittenIndexTableOffset + 8 * (i - 1) + 4)
BytesAt(buf, off, n) == SubSeq(buf, off + 1, off + n)

\* C11: in a written bundle of N fonts the header gives the index table at 21, the
\* string pool at 21 + 8N and the font data pool directly after the string pool;
\* the i-th index entry holds the pool positions where the i-th font's
\* NUL-terminated key and the i-th font's data block begin; the fonts are in
\* ascending key order.
C11_SectionAndIndexOffsets ==
    pack.status = "written" =>
    LET N     == Len(pack.processedFontsData)
        fonts == pack.processedFontsData
    IN  /\ GetUint32LE(pack.bundle, 5) = N
        /\ WrittenIndexTableOffset = 21
        /\ WrittenStringPoolOffset = 21 + 8 * N
        /\ WrittenFontDataPoolOffset = 21 + 8 * N + SumTo(KeySizes, N)
        /\ Len(pack.bundle) = WrittenFontDataPoolOffset + SumTo(FontBlockSizes, N)
        /\ \A i \in 1..N :
              /\ WrittenKeyOffset(i) = SumTo(KeySizes, i - 1)
              /\ BytesAt(pack.bundle, WrittenStringPoolOffset + WrittenKeyOffset(i),
                         Len(fonts[i].uniqueKey) + 1) = fonts[i].uniqueKey \o <<0>>
              /\ WrittenDataOffset(i) = SumTo(FontBlockSizes, i - 1)
              /\ BytesAt(pack.bundle, WrittenFontDataPoolOffset + WrittenDataOffset(i), 2)
                    = <<fonts[i].spacing, fonts[i].nPairs>>
        /\ \A i \in 1..(N - 1) : LocaleCompare(fonts[i].uniqueKey, fonts[i + 1].uniqueKey) <= 0

\* C11 witness: a bundle of three fonts or more whose keys differ in length.
C11_Witness ==
    /\ pack.status = "written"
    /\ Len(pack.processedFontsData) >= 3
    /\ \E i, j \in 1..Len(pack.processedFontsData) :
          Len(pack.processedFontsData[i].uniqueKey) # Len(pack.processedFontsData[j].uniqueKey)

\* The glyph lookup table of the i-th font block, read back from the written bytes.
WrittenBlockOffset(i) == WrittenFontDataPoolOffset + WrittenDataOffset(i)
WrittenGltOffset(i) == WrittenBlockOffset(i) + 2 + 2 * At(pack.bundle, WrittenBlockOffset(i) + 1) + 1
WrittenGlyphCount(i) == At(pack.bundle, WrittenGltOffset(i) - 1)
WrittenGltChar(i, k) == At(pack.bundle, WrittenGltOffset(i) + 3 * k)
WrittenGltRelOffset(i, k) == GetUint16LE(pack.bundle, WrittenGltOffset(i) + 3 * k + 1)
WrittenGdtOffset(i) == WrittenGltOffset(i) + 3 * WrittenGlyphCount(i)

\* C12: in every written font block the glyph lookup table lists each defined
\* character exactly once, in strictly ascending character code, and each entry's
\* relative offset is the position in the glyph data table where that character's
\* record (width, height, RLE stream) begins.
C12_LookupTableOrderedAndExact ==
    pack.status = "written" =>
    \A i \in 1..Len(pack.processedFontsData) :
       LET glyphs == pack.processedFontsData[i].encodedGlyphs
           G      == WrittenGlyphCount(i)
           chars  == AscendingChars(DOMAIN glyphs)
       IN  /\ G = Cardinality(DOMAIN glyphs)
           /\ {WrittenGltChar(i, k) : k \in 0..(G - 1)} = DOMAIN glyphs
           /\ \A k \in 0..(G - 2) : WrittenGltChar(i, k) < WrittenGltChar(i, k + 1)
           /\ \A k \in 0..(G - 1) :
                 LET c == WrittenGltChar(i, k) IN
                 /\ WrittenGltRelOffset(i, k)
                       = SumTo([m \in 1..Len(chars) |-> GlyphRecordSize(glyphs[chars[m]])], k)
                 /\ BytesAt(pack.bundle, WrittenGdtOffset(i) + WrittenGltRelOffset(i, k),
                            GlyphRecordSize(glyphs[c]))
                       = <<glyphs[c].width, glyphs[c].height>> \o glyphs[c].rleStream

\* C12 witness: a written font block with five glyphs whose records differ in size.
C12_Witness ==
    /\ pack.status = "written"
    /\ \E i \in 1..Len(pack.processedFontsData) :
          LET glyphs == pack.processedFontsData[i].encodedGlyphs IN
          /\ Cardinality(DOMAIN glyphs) >= 5
          /\ \E c, d \in DOMAIN glyphs : GlyphRecordSize(glyphs[c]) # GlyphRecordSize(glyphs[d])

----------------------------------------------------------------------------
(* Claims about how a packer run ends *)

\* The fonts of the directory that main() collects: color fonts with a glyph, in
\* files it parses, whose palette has at most 254 entries.
CollectableFonts(dir) ==
    {fh \in PaletteCandidates(dir) : PaletteEntryCount(dir, fh) <= MaxPalettePairs}

\* A collected font whose values all fit the fields the format gives them: one
\* byte for spacing, palette size, glyph count, width and height, two bytes for
\* a glyph's offset in the glyph data table.
FontFitsFormat(fontInfo) ==
    LET chars == AscendingChars(DOMAIN fontInfo.encodedGlyphs) IN
    /\ fontInfo.spacing <= 255 /\ fontInfo.nPairs <= 255 /\ Len(chars) <= 255
    /\ \A k \in 1..Len(chars) :
          /\ fontInfo.encodedGlyphs[chars[k]].width <= 255
          /\ fontInfo.encodedGlyphs[chars[k]].height <= 255
          /\ SumTo([m \in 1..Len(chars) |-> GlyphRecordSize(fontInfo.encodedGlyphs[chars[m]])],
                   k - 1) <= 65535

\* The key of the i-th collected font stands in the written bundle's string pool.
KeyInWrittenBundle(i) ==
    /\ pack.status = "written"
    /\ \E j \in 1..GetUint32LE(pack.bundle, 5) :
          BytesAt(pack.bundle, WrittenStringPoolOffset + WrittenKeyOffset(j),
                  Len(pack.processedFontsData[i].uniqueKey) + 1)
             = pack.processedFontsData[i].uniqueKey \o <<0>>

\* C16: the packer ends with a non-zero exit status, and writes no bundle, when the
\* input directory cannot be read and when no usable font is found; when the
\* directory is readable and a usable font is found, the run does not abort.
C16_AbortOnlyWithoutInput ==
    /\ pack.status = "unreadable" => pack.exitCode # 0 /\ pack.bundle = <<>>
    /\ (lastOp.op = "pack" /\ CollectableFonts(filesInDir) = {})
          => pack.exitCode # 0 /\ pack.bundle = <<>>
    /\ (lastOp.op = "pack" /\ CollectableFonts(filesInDir) # {})
          => pack.exitCode = 0 /\ pack.status = "written"

\* C17: an error raised for one file or one font never aborts the batch: that file
\* or font is left out and every other font is still written to the bundle.
C17_BadFontDoesNotAbortBatch ==
    lastOp.op = "pack" =>
    \A i \in 1..Len(pack.processedFontsData) :
       FontFitsFormat(pack.processedFontsData[i]) => KeyInWrittenBundle(i)

\* C18: no two fonts of a written bundle have the same uniqueKey; so the index the
\* renderer builds from the bundle has one key per packed font, as many as the
\* header's font count.
C18_UniqueKeysInBundle ==
    pack.status = "written" =>
    /\ \A i, j \in 1..Len(pack.processedFontsData) :
          i # j => pack.processedFontsData[i].uniqueKey # pack.processedFontsData[j].uniqueKey
    /\ Len(_parseFontIndex(pack.bundle, Val(_parseBundleHeader(pack.bundle))))
          = GetUint32LE(pack.bundle, 5)

----------------------------------------------------------------------------
(* Claims about loading a bundle and about the calls on a loaded renderer      *)

\* The init call that has just ended got `bytes` from its fetch.
LoadEnded == lastOp.op = "init" /\ "bytes" \in DOMAIN lastOp

\* The defects of a header: fewer than 21 bytes, a tag other than "TDFB", another
\* version than 4, a section offset outside the buffer, or an index table that
\* ends behind the buffer.
HeaderTooShort(bytes) == Len(bytes) < 21

HeaderTagWrong(bytes) == SubSeq(bytes, 1, 4) # <<84, 68, 70, 66>>

HeaderVersionWrong(bytes) == At(bytes, 4) # EXPECTED_BUNDLE_FORMAT_VERSION

HeaderOffsetsOutside(bytes) ==
    \/ GetUint32LE(bytes, 9) >= Len(bytes)
    \/ GetUint32LE(bytes, 13) >= Len(bytes)
    \/ GetUint32LE(bytes, 17) >= Len(bytes)
    \/ GetUint32LE(bytes, 9) + 8 * GetUint32LE(bytes, 5) > Len(bytes)

HeaderDefective(bytes) ==
    \/ HeaderTooShort(bytes)
    \/ ~HeaderTooShort(bytes) /\ HeaderTagWrong(bytes)
    \/ ~HeaderTooShort(bytes) /\ HeaderVersionWrong(bytes)
    \/ ~HeaderTooShort(bytes) /\ HeaderOffsetsOutside(bytes)

\* C13: an init call whose fetched buffer is shorter than the 21-byte header, does
\* not start with "TDFB", has another version than the supported one, or has a
\* section offset or the end of its index table outside the buffer, fails (it
\* returns no font list) and leaves the initialized flag as it found it.
C13_DefectiveHeaderFailsLoad ==
    (LoadEnded /\ HeaderDefective(lastOp.bytes)) =>
        /\ IsNull(lastOp.result)
        /\ rdr._isInitialized = lastOp.wasInitialized

\* A first load of a full-length file with the right tag and another version has
\* failed, and the renderer is not initialized.
C13_Witness ==
    /\ LoadEnded
    /\ Len(lastOp.bytes) = Len(pack.bundle)
    /\ ~HeaderTagWrong(lastOp.bytes)
    /\ HeaderVersionWrong(lastOp.bytes)
    /\ IsNull(lastOp.result)
    /\ ~lastOp.wasInitialized
    /\ ~rdr._isInitialized

\* The calls that C14 is about, made on a renderer whose load has succeeded.
GuardedQueries == {"list", "filter", "measure", "metrics", "decode"}

\* C14: once init has succeeded, getAvailableFonts, filterFontsByText,
\* calculateLayout, the glyph metrics lookup and the glyph decode never end in a
\* thrown error, whichever served file the renderer holds and whichever text or
\* character is passed.
C14_NoQueryThrowsAfterLoad ==
    lastOp.op \in GuardedQueries => ~lastOp.threw

\* A metrics lookup on a loaded file whose lookup table points behind the end of
\* the file for the character asked: the answer is null, nothing is thrown.
C14_Witness ==
    /\ lastOp.op = "metrics"
    /\ rdr._isInitialized
    /\ ~HeaderDefective(Val(rdr._bundleBuffer))
    /\ ~IsNull(_getOrParseFontDetails(rdr, lastOp.font))
    /\ _findGlyphOffsetInLookupTable(Val(rdr._bundleBuffer),
                                     Val(_getOrParseFontDetails(rdr, lastOp.font)).gltAbsOffset,
                                     Val(_getOrParseFontDetails(rdr, lastOp.font)).glyphCount,
                                     lastOp.char) > Len(Val(rdr._bundleBuffer))
    /\ IsNull(lastOp.result)
    /\ ~lastOp.threw

\* The call that has just ended named a font key that the index does not hold.
AbsentKeyAsked == "key" \in DOMAIN lastOp /\ IsNull(FontIndexGet(rdr, lastOp.key))

\* C15: calculateLayout and render, called on a loaded renderer with a font key
\* that is not in the bundle, end in an error for every text, the empty text
\* included: calculateLayout returns no layout and render resolves with no canvas.
C15_AbsentKeyIsAnError ==
    /\ (lastOp.op = "measure" /\ AbsentKeyAsked) => IsNull(lastOp.result)
    /\ (lastOp.op = "render" /\ AbsentKeyAsked) => lastOp.result = "rejected"

----------------------------------------------------------------------------
(* Claims about what a loaded renderer keeps                                   *)

\* Every entry of the parse cache is still there, unchanged, after the step.
CacheEntriesKept ==
    \A off \in DOMAIN rdr._parsedFontDetailsCache :
       /\ off \in DOMAIN rdr'._parsedFontDetailsCache
       /\ rdr'._parsedFontDetailsCache[off] = rdr._parsedFontDetailsCache[off]

\* C19: the parse cache only grows: no operation removes, clears or replaces an
\* entry that is in the cache, so a later lookup of that font offset finds the
\* same entry.
C19_CacheOnlyGrows == [][CacheEntriesKept]_vars

\* The bundle bytes, the section offsets and the key-to-offset index are the same
\* after the step.
BundleStateKept ==
    /\ rdr'._bundleBuffer = rdr._bundleBuffer
    /\ rdr'._stringPoolOffset = rdr._stringPoolOffset
    /\ rdr'._fontDataPoolOffset = rdr._fontDataPoolOffset
    /\ rdr'._fontIndex = rdr._fontIndex

\* C20: once init has succeeded, no operation changes the held bundle bytes, the
\* section offsets or the font index, a further init call and an init call that
\* was still waiting for its fetch included.
C20_LoadedBundleNeverChanges == [][rdr._isInitialized => BundleStateKept]_vars

----------------------------------------------------------------------------
(* Claims about init calls and their fetches                                   *)

\* The step is an init call that found the renderer uninitialized.
InitCallStep == lastOp'.op = "initCall"

\* The step is the end of an init call whose fetch failed.
FetchFailedStep == lastOp'.op = "init" /\ "bytes" \notin DOMAIN lastOp' /\ IsNull(lastOp'.result)

\* C21: an init call that finds the renderer uninitialized issues exactly one
\* fetch; when a fetch fails the call rejects, the fetch is not issued again, the
\* renderer state is left as it was (uninitialized, with an empty font list, if it
\* was uninitialized), and a later init call issues a fetch of its own.
C21_FailedFetchNotRetried ==
    [][/\ InitCallStep => initPc' = initPc + 1
       /\ FetchFailedStep =>
             /\ initPc' = initPc - 1
             /\ rdr' = rdr
             /\ ~rdr._isInitialized => (~rdr'._isInitialized /\ getAvailableFonts(rdr') = <<>>)]_vars

\* The only fetch that was waiting has failed: the renderer is uninitialized, no
\* fetch waits, the font list is empty.
C21_Witness ==
    /\ lastOp.op = "init"
    /\ "bytes" \notin DOMAIN lastOp
    /\ IsNull(lastOp.result)
    /\ ~rdr._isInitialized
    /\ initPc = 0
    /\ getAvailableFonts(rdr) = <<>>

----------------------------------------------------------------------------
(* Claims about measuring                                                      *)

\* _calculateSingleLineLayout has just measured a non-empty line.
LineMeasured == lastOp.op = "line" /\ lastOp.textLine # <<>>

\* The metrics of the characters of the measured line.
MeasuredChars ==
    [i \in 1..Len(lastOp.textLine) |->
        _getCharLayoutMetrics(rdr, lastOp.font, lastOp.textLine[i], lastOp.minSpaceWidthChars)]

MeasuredSpacing == Val(_getOrParseFontDetails(rdr, lastOp.font)).spacing

SumOfCharWidths == SumTo([i \in 1..Len(lastOp.textLine) |-> MeasuredChars[i].widthPx], Len(lastOp.textLine))

LargestCharHeight == SetMax({MeasuredChars[i].heightPx : i \in 1..Len(lastOp.textLine)})

\* n - 1 gaps of the font's spacing, 8 px per cell, between n characters.
SpacingBetween(n) == IF n > 1 THEN (n - 1) * MeasuredSpacing * 8 ELSE 0

WideChars == {i \in 1..Len(lastOp.textLine) : MeasuredChars[i].widthPx > 0}

WideCharsAndSpaces ==
    {i \in 1..Len(lastOp.textLine) : MeasuredChars[i].widthPx > 0 \/ lastOp.textLine[i] = 32}

\* C22 as stated: the width of a non-empty line is the sum of its characters'
\* widths plus (n - 1) x spacing x 8 px, n being the number of characters of
\* width greater than zero, and its height is the largest character height, at
\* least 16 px.
C22_LineWidthCountsWideChars ==
    LineMeasured =>
        /\ lastOp.result.width = SumOfCharWidths + SpacingBetween(Cardinality(WideChars))
        /\ lastOp.result.height = Max(LargestCharHeight, 16)

\* C22: the width of a non-empty line is the sum of its characters' widths plus
\* (n - 1) x spacing x 8 px, where n counts the characters of width greater than
\* zero and every space, and is at least 8 px; its height is the largest
\* character height, at least 16 px.
C22_LineWidthCountsSpaces ==
    LineMeasured =>
        /\ lastOp.result.width =
              Max(SumOfCharWidths + SpacingBetween(Cardinality(WideCharsAndSpaces)), 8)
        /\ lastOp.result.height = Max(LargestCharHeight, 16)

\* The example: spacing 1, 'A' of 2 cells in 1 row, no space glyph, minimum space
\* width 3: "A A" measures 72 px by 16 px.
C22_Witness ==
    /\ lastOp.op = "line"
    /\ lastOp.textLine = <<65, 32, 65>>
    /\ lastOp.minSpaceWidthChars = 3
    /\ MeasuredSpacing = 1
    /\ _getGlyphLayoutMetricsOnly(rdr, lastOp.font, 65) = Some([width |-> 2, height |-> 1])
    /\ IsNull(_getGlyphLayoutMetricsOnly(rdr, lastOp.font, 32))
    /\ lastOp.result = [width |-> 72, height |-> 16]

\* calculateLayout has just measured a text with a font of the bundle.
TextMeasured == lastOp.op = "layout" /\ ~AbsentKeyAsked /\ ~IsNull(lastOp.result)

\* The height _calculateSingleLineLayout gives each line of a text, for the font
\* and the minimum space width of the call that has just ended.
LineHeightsOf(text) ==
    [i \in 1..Len(SplitLines(text)) |->
        _calculateSingleLineLayout(rdr, Val(FontIndexGet(rdr, lastOp.key)),
                                   Val(_getOrParseFontDetails(rdr, Val(FontIndexGet(rdr, lastOp.key)))).spacing,
                                   SplitLines(text)[i], lastOp.minSpaceWidthChars).height]

\* The measured height of a text under the arguments of the call that has ended.
HeightOf(text) ==
    Val(calculateLayoutWith(rdr, lastOp.key, text, lastOp.minSpaceWidthChars,
                            lastOp.additionalLineSpacingPx)).height

\* C23: the measured height of a text of k lines is the sum of the k line
\* heights, each at least 16 px, plus the line gap once between each two
\* consecutive lines; the text with one more line appended is strictly higher.
C23_HeightSumsLines ==
    TextMeasured =>
        /\ \A i \in 1..Len(SplitLines(lastOp.text)) : LineHeightsOf(lastOp.text)[i] >= 16
        /\ Val(lastOp.result).height =
              SumTo(LineHeightsOf(lastOp.text), Len(SplitLines(lastOp.text)))
              + (Len(SplitLines(lastOp.text)) - 1) * lastOp.additionalLineSpacingPx
        /\ \A line \in TextLines : HeightOf(lastOp.text \o <<10>> \o line) > Val(lastOp.result).height

\* A text of two lines, the second one higher than a cell row, measured with a
\* line gap of 5 px.
C23_Witness ==
    /\ TextMeasured
    /\ Len(SplitLines(lastOp.text)) = 2
    /\ lastOp.additionalLineSpacingPx = 5
    /\ LineHeightsOf(lastOp.text)[2] > 16
    /\ Val(lastOp.result).height = LineHeightsOf(lastOp.text)[1] + 5 + LineHeightsOf(lastOp.text)[2]

\* A space has just been measured and drawn.
SpaceMeasured == lastOp.op = "char" /\ lastOp.char = 32

\* The font of the call defines a glyph for the space, of positive width.
OwnSpaceGlyph ==
    /\ ~IsNull(_getGlyphLayoutMetricsOnly(rdr, lastOp.font, 32))
    /\ Val(_getGlyphLayoutMetricsOnly(rdr, lastOp.font, 32)).width > 0

\* What C24 says of a space: the glyph's own size when the font has a space glyph
\* of positive width, else the minimum space width and one cell row.
SpaceSizeByClaim ==
    IF OwnSpaceGlyph
    THEN [widthPx  |-> Val(_getGlyphLayoutMetricsOnly(rdr, lastOp.font, 32)).width * 8,
          heightPx |-> Max(1, Val(_getGlyphLayoutMetricsOnly(rdr, lastOp.font, 32)).height) * 16]
    ELSE [widthPx |-> lastOp.minSpaceWidthChars * 8, heightPx |-> 16]

\* C24: a space is measured, and advanced over when drawn, with the metrics of the
\* font's space glyph when that glyph has a positive width; otherwise (no space
\* glyph, or one of width zero) with the minimum space width and the height of
\* one cell row.  This is asked of both renderers.
C24_SpaceMetrics ==
    SpaceMeasured =>
        /\ lastOp.result.widthPx = SpaceSizeByClaim.widthPx
        /\ lastOp.result.heightPx = SpaceSizeByClaim.heightPx
        /\ lastOp.advance = SpaceSizeByClaim.widthPx
        /\ lastOp.result110.widthPx = SpaceSizeByClaim.widthPx
        /\ lastOp.result110.heightPx = SpaceSizeByClaim.heightPx

----------------------------------------------------------------------------
(* filterFontsByText against the glyph lookup tables the packer wrote *)

\* The i-th font of the written bundle lists charCode in its glyph lookup table.
WrittenFontDefines(i, charCode) ==
    \E k \in 0..(WrittenGlyphCount(i) - 1) : WrittenGltChar(i, k) = charCode

\* The characters of a text that ask for a glyph: codes 33 to 126.
CharsToSupport(text) == {text[i] : i \in {j \in 1..Len(text) : text[j] >= 33 /\ text[j] <= 126}}

\* The keys of the written fonts that list every such character of the text.
SupportingKeys(text) ==
    {DecodeUtf8(pack.processedFontsData[i].uniqueKey) :
        i \in {j \in 1..Len(pack.processedFontsData) :
                  \A c \in CharsToSupport(text) : WrittenFontDefines(j, c)}}

\* A list of keys in strictly ascending order of their character codes.
KeysAscending(keys) ==
    \A i \in 1..Len(keys), j \in 1..Len(keys) : i < j => LexCompare(keys[i], keys[j], 1) < 0

\* filterFontsByText has just answered on the bundle the packer wrote.
FilterAnswered == lastOp.op = "filter" /\ WholeBundleLoaded

\* C25: on a loaded bundle of the packer, filterFontsByText(text) returns, in
\* sorted order, exactly the keys of the fonts whose glyph lookup table lists
\* every character of text with a code in 33..126 (a space or a newline asks
\* nothing): a font lacking one is left out, a font listing them all is returned,
\* and a text with no such character returns every font.
C25_FilterReturnsSupportingFonts ==
    FilterAnswered =>
        /\ ~lastOp.threw
        /\ KeysAscending(lastOp.result)
        /\ {lastOp.result[i] : i \in 1..Len(lastOp.result)} = SupportingKeys(lastOp.text)
        /\ (CharsToSupport(lastOp.text) = {} =>
               Len(lastOp.result) = Len(pack.processedFontsData))

\* C25 witness: of the two fonts of the bundle, the filter has returned the one
\* that defines the character asked for and left out the other.
C25_Witness ==
    /\ FilterAnswered
    /\ Len(pack.processedFontsData) = 2
    /\ Len(lastOp.result) = 1
    /\ CharsToSupport(lastOp.text) # {}

----------------------------------------------------------------------------
(* The lines of a legacy glyph, built from the byte stream as the format says *)

\* The parser has just returned a glyph for the buffer of the call.
GlyphExtracted == lastOp.op = "glyph" /\ ~IsNull(lastOp.result)

\* The lines at the end of the glyph: the current line is added when it holds a
\* cell or when there is no line yet.
LinesAtEnd(lines, current) ==
    IF current # <<>> \/ lines = <<>> THEN lines \o <<current>> ELSE lines

\* The lines of the stream from its pos-th byte on (1-based), given the lines
\* closed so far and the cells of the open line.
RECURSIVE LinesFrom(_, _, _, _)
LinesFrom(stream, pos, lines, current) ==
    IF pos > Len(stream) THEN LinesAtEnd(lines, current)
    ELSE IF stream[pos] = 0 THEN LinesAtEnd(lines, current)
    ELSE IF stream[pos] = 13 THEN LinesFrom(stream, pos + 1, lines \o <<current>>, <<>>)
    ELSE IF pos = Len(stream) THEN LinesAtEnd(lines, current)
    ELSE LinesFrom(stream, pos + 2, lines,
                   current \o <<[charByte |-> stream[pos], attrByte |-> stream[pos + 1]]>>)

\* The stream of the call: the buffer after the two size bytes of the glyph.
StreamOfCall == SubSeq(lastOp.buffer, 3, Len(lastOp.buffer))

\* The stream is read to the buffer's end without meeting a zero byte in the
\* place of a character code.
RECURSIVE EndsWithoutTerminator(_, _)
EndsWithoutTerminator(stream, pos) ==
    IF pos > Len(stream) THEN TRUE
    ELSE IF stream[pos] = 0 THEN FALSE
    ELSE IF stream[pos] = 13 THEN EndsWithoutTerminator(stream, pos + 1)
    ELSE EndsWithoutTerminator(stream, pos + 2)

\* C26: for any byte stream the legacy glyph parser builds the glyph's lines so:
\* a row separator (0x0D) closes the current line and opens a new one; a zero
\* byte ends the glyph, adding the current line only if it holds a cell or no line
\* exists yet; any other byte forms one cell with the byte after it; the buffer's
\* end before a zero byte ends the glyph the same way, without an error.  The
\* height is the number of lines so built, at least 1.
C26_LegacyGlyphLines ==
    GlyphExtracted =>
        /\ Val(lastOp.result).lines = LinesFrom(StreamOfCall, 1, <<>>, <<>>)
        /\ Val(lastOp.result).actualHeight = Len(Val(lastOp.result).lines)
        /\ Val(lastOp.result).actualHeight >= 1
        /\ Val(lastOp.result).declaredWidth = lastOp.buffer[1]

\* C26 witness: a stream of a cell, a row separator and a second cell that
\* reaches the buffer's end without a zero byte, read as a glyph of two lines.
C26_Witness ==
    /\ GlyphExtracted
    /\ EndsWithoutTerminator(StreamOfCall, 1)
    /\ Val(lastOp.result).actualHeight = 2
    /\ \A n \in 1..2 : Len(Val(lastOp.result).lines[n]) = 1

----------------------------------------------------------------------------
(* The values the packer writes, against the ranges of their fields *)

\* The glyph records of the i-th written font block: width and height bytes of
\* the record the k-th lookup entry points to.
WrittenGlyphWidth(i, k) == At(pack.bundle, WrittenGdtOffset(i) + WrittenGltRelOffset(i, k))
WrittenGlyphHeight(i, k) == At(pack.bundle, WrittenGdtOffset(i) + WrittenGltRelOffset(i, k) + 1)

\* The i-th collected font has the values of its fields inside the ranges C27
\* gives, and the written block holds these very values.
FontWrittenInRange(i) ==
    LET fontInfo == pack.processedFontsData[i]
        chars    == AscendingChars(DOMAIN fontInfo.encodedGlyphs)
    IN  /\ fontInfo.spacing \in 0..40
        /\ At(pack.bundle, WrittenBlockOffset(i)) = fontInfo.spacing
        /\ fontInfo.nPairs <= 254
        /\ At(pack.bundle, WrittenBlockOffset(i) + 1) = fontInfo.nPairs
        /\ Len(chars) <= 94
        /\ WrittenGlyphCount(i) = Len(chars)
        /\ \A k \in 1..Len(chars) :
              /\ fontInfo.encodedGlyphs[chars[k]].width <= 255
              /\ fontInfo.encodedGlyphs[chars[k]].height <= 255
              /\ WrittenGlyphWidth(i, k - 1) = fontInfo.encodedGlyphs[chars[k]].width
              /\ WrittenGlyphHeight(i, k - 1) = fontInfo.encodedGlyphs[chars[k]].height
              /\ WrittenGltRelOffset(i, k - 1) <= 65535

\* C27: for any input fonts every value the packer writes lies in the range of
\* the field that stores it: spacing in 0..40, palette size at most 254, glyph
\* count at most 94, glyph width and height at most 255, each glyph's relative
\* offset into the glyph data table at most 65535; no value is wrapped or
\* truncated, and none is rejected at write time.
C27_WrittenValuesInFieldRange ==
    lastOp.op = "pack" =>
        /\ pack.status # "crashed"
        /\ (pack.status = "written" =>
               \A i \in 1..Len(pack.processedFontsData) : FontWrittenInRange(i))

----------------------------------------------------------------------------
(* The decoder state of an initialized renderer, against the buffer it holds *)

\* The header fields read from the buffer the renderer holds.
HeldHeader == _parseBundleHeader(Val(rdr._bundleBuffer))

\* Both pool offsets, the key index and every cache entry are what the held
\* buffer gives, and that buffer passes the header validation.
StateFromHeldBuffer ==
    /\ ~IsNull(rdr._bundleBuffer)
    /\ ~IsNull(HeldHeader)
    /\ rdr._stringPoolOffset = Val(HeldHeader).stringPoolOffset
    /\ rdr._fontDataPoolOffset = Val(HeldHeader).fontDataPoolOffset
    /\ rdr._fontIndex = _parseFontIndex(Val(rdr._bundleBuffer), Val(HeldHeader))
    /\ \A off \in DOMAIN rdr._parsedFontDetailsCache :
          Some(rdr._parsedFontDetailsCache[off])
             = ParseFontDetails(Val(rdr._bundleBuffer), Val(HeldHeader).fontDataPoolOffset, off)

\* C28: for any interleaving of init calls that overlap at the fetch, whatever
\* each fetch returns: whenever isInitialized() is true, the held bundle bytes,
\* both pool offsets, the key index and every parse-cache entry come from one and
\* the same fetched buffer, and that buffer passed the header validation.
C28_InitializedStateFromOneBuffer == rdr._isInitialized => StateFromHeldBuffer

----------------------------------------------------------------------------
(* init calls on a renderer that is already initialized *)

\* The step is an init call that found the renderer initialized (817-820).
LaterInitStep ==
    /\ rdr._isInitialized
    /\ lastOp'.op = "init"
    /\ DOMAIN lastOp' = {"op", "result"}
    /\ ~IsNull(lastOp'.result)

\* An init call started on an initialized renderer issues no fetch, changes no
\* decoder state and resolves with the key list of the index.
LaterInitIsIdle ==
    LaterInitStep =>
        /\ initPc' = initPc
        /\ rdr' = rdr
        /\ lastOp'.result = Some(getAvailableFonts(rdr))

\* The key list an init call resolves with stays the one of the load that made
\* the renderer initialized: no step changes it, and the renderer stays
\* initialized.
KeyListKept ==
    rdr._isInitialized =>
        /\ rdr'._isInitialized
        /\ getAvailableFonts(rdr') = getAvailableFonts(rdr)

\* C29: once an init call has succeeded, every init call started afterwards, with
\* any URL, issues no fetch, changes no decoder state and resolves with the same
\* sorted key list as the first; isInitialized() never goes back from true to
\* false.  An init call can follow every step, so the list is the same as the
\* first one's exactly when no step changes the list of an initialized renderer.
C29_LaterInitReturnsFirstList == [][LaterInitIsIdle /\ KeyListKept]_vars

----------------------------------------------------------------------------
(* What render paints, against the canvas it sized from the layout *)

\* render has just resolved with a canvas.
TextRendered == lastOp.op = "render" /\ ~IsNull(lastOp.result)

\* The rectangles of a rendered line that hold painted cells.
PaintedBoxes(line) == {line.boxes[i] : i \in {j \in 1..Len(line.boxes) : line.boxes[j].w > 0}}

\* A painted glyph or space of the line begins at or after the line's start, and
\* its x position plus its width stays inside the line's measured width and the
\* line's measured height.
BoxInsideLine(box, line) ==
    /\ box.x >= line.startX
    /\ box.x + box.advance <= line.startX + line.layout.width
    /\ box.x + box.w <= line.startX + line.layout.width
    /\ box.y = line.y
    /\ box.y + box.h <= line.y + line.layout.height

\* The aligned line lies inside the text block and above the measured height.
LineInsideBlock(line, rendered) ==
    /\ line.startX >= rendered.blockStartX
    /\ line.startX + line.layout.width <= rendered.blockStartX + rendered.layout.width
    /\ line.y >= 0
    /\ line.y + line.layout.height <= rendered.layout.height

\* The text block lies inside the canvas.
BlockInsideCanvas(rendered) ==
    /\ rendered.blockStartX >= 0
    /\ rendered.blockStartX + rendered.layout.width <= rendered.canvas.width
    /\ rendered.layout.height <= rendered.canvas.height

\* C30: for every font, text, alignment, minimum space width and line gap, every
\* glyph cell that render paints lies inside the canvas it sized from the layout:
\* on each line the x position where a glyph is painted plus the glyph's width
\* never exceeds the line's start plus its measured width, the aligned line never
\* starts left of the block or ends right of it, and each line's y position plus
\* its height never exceeds the measured total height.
C30_PaintedCellsInsideCanvas ==
    TextRendered =>
        /\ BlockInsideCanvas(Val(lastOp.result))
        /\ \A n \in 1..Len(Val(lastOp.result).lines) :
              /\ LineInsideBlock(Val(lastOp.result).lines[n], Val(lastOp.result))
              /\ \A box \in PaintedBoxes(Val(lastOp.result).lines[n]) :
                    BoxInsideLine(box, Val(lastOp.result).lines[n])

\* C30 witness: a text of two lines rendered right-aligned on a canvas wider than
\* the text; the second line is narrower than the block and so indented, a line
\* holds a painted glyph after a character without glyph, and the last painted
\* glyph of a line ends exactly at the line's measured width.
C30_Witness ==
    /\ TextRendered
    /\ lastOp.textAlign = "right"
    /\ Val(lastOp.result).blockStartX > 0
    /\ Len(Val(lastOp.result).lines) = 2
    /\ Val(lastOp.result).lines[2].y > 0
    /\ Val(lastOp.result).lines[2].startX > Val(lastOp.result).blockStartX
    /\ \E n \in 1..2 : \E box \in PaintedBoxes(Val(lastOp.result).lines[n]) :
          /\ box.x > Val(lastOp.result).lines[n].startX
          /\ box.x + box.w = Val(lastOp.result).lines[n].startX
                               + Val(lastOp.result).lines[n].layout.width

====
